---- MODULE Spec2Model ----
(***************************************************************************)
(* A model of the configuration backend of the "On By Default" settings    *)
(* extension: the seen-settings tracker (NewSettingsTracker), the HTTP     *)
(* cache (HttpService), the defaults pass (SchemaInferenceService) and the *)
(* configuration loader and change poller (ConfigurationService).          *)
(* Each component has its own specification over its own variables; the    *)
(* variables of the other components are held at their initial value.      *)
(***************************************************************************)
EXTENDS Integers, Sequences, FiniteSets, TLC

(***************************************************************************)
(* Bounds of the model.                                                    *)
(***************************************************************************)
\* setting keys are 1..NumKeys
NumKeys == 2
\* definition lists handed to the tracker have at most MaxDefs entries
MaxDefs == 2

Keys == 1..NumKeys

VARIABLES
    \* ---- seen-settings tracker
    stored,      \* the persisted document under 'newSettings.state'
    trk,         \* NewSettingsTracker.state of the live instance
    loadedFrom,  \* what the live instance found in the store when constructed
    initialized, \* initialize() has run on the live instance
    lastOp,      \* the last tracker operation, its arguments and its result
    prevOp,      \* the detectNewSettings call right before the last call, when both are such calls
    \* ---- HTTP cache
    srvBody,     \* the body the server holds for each URL
    etagStore,   \* globalState 'http.etag:<url>'
    cacheFiles,  \* the cache directory: the content of each cache file
    cachedFor,   \* the last non-empty 2xx body a caching get of ObservedUrl received
    prevGet,     \* the data the last caching get of ObservedUrl returned, while its body is unchanged
    lastGet,     \* the last get: its arguments, the response and the outcome
    \* ---- user settings
    cfg,         \* vscode.workspace.getConfiguration(): the explicit values of each key
    installed,   \* the extensions vscode.extensions.getExtension finds
    lastApply,   \* the definition the last iteration of applyDefaultsToUserSettings took
    \* ---- configuration service and its listener
    remoteUrl,   \* the setting onByDefault.remoteConfigUrl
    bundled,     \* the content of media/config.json (0: no such file)
    hosted,      \* the texts the remote document takes over the run
    pending,     \* globalState 'remoteConfig.hasPendingChanges'
    lastRaw,     \* globalState 'remoteConfig.lastRawText'
    lastChecked, \* globalState 'remoteConfig.lastChecked'
    gistEtag,    \* globalState 'gist.etag:<id>'
    gistFile,    \* the cache file gist-<id>.json
    load,        \* the loadConfiguration or refreshConfiguration call in flight, or the last one
    load2,       \* a loadConfiguration call started while `load` was in flight, or the last such
    check,       \* the checkForRemoteUpdates call in flight, or the last one
    pollTimer,   \* ConfigurationService.pollTimer is set
    scheduled,   \* the number of intervals set and not cleared
    listening,   \* the provider's listener of onConfigurationChanged is subscribed
    settingDefinitions, \* the provider's loaded definition list
    \* ---- parseConfiguration on its own
    parseInput,  \* the group container last parsed
    parseOutput, \* the definitions parsed from it
    \* ---- StateManager
    webviewState, \* the snapshot buildWebviewState last returned
    \* ---- OnByDefaultSettingsWebviewProvider
    provider     \* the view, where resolveWebviewView stands, the keys watched

trackerVars == <<stored, trk, loadedFrom, initialized, lastOp, prevOp>>

httpVars == <<srvBody, etagStore, cacheFiles, cachedFor, prevGet, lastGet>>

defaultsVars == <<cfg, installed, lastApply>>

configVars == <<remoteUrl, bundled, hosted, pending, lastRaw, lastChecked, gistEtag, gistFile,
                load, load2, check, pollTimer, scheduled, listening, settingDefinitions,
                parseInput, parseOutput, webviewState, provider>>

vars == <<stored, trk, loadedFrom, initialized, lastOp, prevOp,
          srvBody, etagStore, cacheFiles, cachedFor, prevGet, lastGet,
          cfg, installed, lastApply,
          remoteUrl, bundled, hosted, pending, lastRaw, lastChecked, gistEtag, gistFile,
          load, load2, check, pollTimer, scheduled, listening, settingDefinitions,
          parseInput, parseOutput, webviewState, provider>>

\* what the operations of one component leave alone
outsideTracker == <<httpVars, defaultsVars, configVars>>

outsideHttp == <<trackerVars, defaultsVars, configVars>>

outsideDefaults == <<trackerVars, httpVars, configVars>>

\* the configuration service calls the HTTP cache and the defaults; its calls
\* leave a call running beside them, and the provider's subscription, as they are
outsideConfig == <<trackerVars, srvBody, cachedFor, prevGet, lastGet, installed, lastApply, load2,
                   listening, parseInput, parseOutput, webviewState, provider>>

(***************************************************************************)
(* Sequences of keys: the key column of a SettingDefinition[].             *)
(***************************************************************************)
RECURSIVE SeqsUpTo(_, _)
SeqsUpTo(S, n) ==
    IF n = 0 THEN {<<>>}
    ELSE LET shorter == SeqsUpTo(S, n - 1)
         IN  shorter \cup {Append(s, x) : s \in {t \in shorter : Len(t) = n - 1}, x \in S}

DefLists == SeqsUpTo(Keys, MaxDefs)

KeysOf(defs) == {defs[i] : i \in 1..Len(defs)}

RECURSIVE Insert(_, _)
Insert(x, s) ==
    IF s = <<>> THEN <<x>>
    ELSE IF x <= Head(s) THEN <<x>> \o s
    ELSE <<Head(s)>> \o Insert(x, Tail(s))

RECURSIVE SortKeys(_)
SortKeys(s) == IF s = <<>> THEN <<>> ELSE Insert(Head(s), SortKeys(Tail(s)))

RECURSIVE FilterSeq(_, _)
FilterSeq(s, keep) ==
    IF s = <<>> THEN <<>>
    ELSE IF Head(s) \in keep THEN <<Head(s)>> \o FilterSeq(Tail(s), keep)
    ELSE FilterSeq(Tail(s), keep)

(***************************************************************************)
(* NewSettingsTracker                                                      *)
(***************************************************************************)
STORAGE_VERSION == 1

\* lastConfigHash: undefined
NoHash == <<0>>

\* calculateConfigHash: the digest of the JSON text of the sorted key list;
\* the digest is injective on the lists of the model, so it is the list.
calculateConfigHashUnsorted(defs) == defs

calculateConfigHash(defs) == SortKeys(defs)

createDefaultState ==
    [seenSettings |-> {}, lastConfigHash |-> NoHash, firstRun |-> TRUE]

\* The persisted document. present = FALSE: nothing stored. seenOk / firstRunOk
\* are the two typeof tests of loadState; seenIsMap is FALSE when seenSettings
\* is null, of which typeof is 'object' too; seenSettings is the set of keys
\* that carry a timestamp.
AbsentDoc ==
    [present |-> FALSE, version |-> 0, seenOk |-> FALSE, seenIsMap |-> FALSE,
     seenSettings |-> {}, lastConfigHash |-> NoHash, firstRunOk |-> FALSE,
     firstRun |-> FALSE]

DocOf(st) ==
    [present |-> TRUE, version |-> STORAGE_VERSION, seenOk |-> TRUE, seenIsMap |-> TRUE,
     seenSettings |-> st.seenSettings, lastConfigHash |-> st.lastConfigHash,
     firstRunOk |-> TRUE, firstRun |-> st.firstRun]

loadStateFresh(doc) == createDefaultState

loadState(doc) ==
    IF ~doc.present \/ doc.version # STORAGE_VERSION
    THEN createDefaultState
    ELSE IF ~doc.seenOk \/ ~doc.firstRunOk
    THEN createDefaultState
    ELSE [seenSettings |-> IF doc.seenIsMap THEN doc.seenSettings ELSE {},
          lastConfigHash |-> doc.lastConfigHash,
          firstRun |-> doc.firstRun]

\* what the constructor found, for the claims that speak of it: nothing, a
\* document of another version, a version-1 document that is not a
\* NewSettingsState (seenSettings not a map of keys, firstRun not a boolean),
\* or a NewSettingsState
DocClass(doc) ==
    IF ~doc.present THEN "absent"
    ELSE IF doc.version # STORAGE_VERSION THEN "mismatch"
    ELSE IF ~doc.seenOk \/ ~doc.seenIsMap \/ ~doc.firstRunOk THEN "invalid"
    ELSE "valid"

\* isSettingNew with the test the wrong way round
isSettingNewInverted(st, key) == key \in st.seenSettings

isSettingNew(st, key) == key \notin st.seenSettings

getNewSettingsCount(st, defs) ==
    Cardinality({i \in 1..Len(defs) : isSettingNew(st, defs[i])})

\* the state after markAllAsSeen(defs) / markAsSeen(keys)
markedSeenOnly(st, keys) == [st EXCEPT !.seenSettings = keys]

markedSeen(st, keys) == [st EXCEPT !.seenSettings = @ \cup keys]

\* the state after initialize(defs)
initializedStateNoMark(st, defs) ==
    [st EXCEPT !.firstRun = FALSE, !.lastConfigHash = calculateConfigHash(defs)]

initializedState(st, defs) ==
    LET s1 == IF st.firstRun
              THEN [markedSeen(st, KeysOf(defs)) EXCEPT !.firstRun = FALSE]
              ELSE st
    IN  [s1 EXCEPT !.lastConfigHash = calculateConfigHash(defs)]

\* detectNewSettings(defs): the list returned
detectResultSorted(st, defs) ==
    IF st.lastConfigHash = calculateConfigHash(defs) THEN <<>>
    ELSE FilterSeq(SortKeys(defs), Keys \ st.seenSettings)

detectResult(st, defs) ==
    IF st.lastConfigHash = calculateConfigHash(defs) THEN <<>>
    ELSE FilterSeq(defs, Keys \ st.seenSettings)

Op(name, defs, keys, ret, firstRunBefore, first) ==
    [op |-> name, defs |-> defs, keys |-> keys, ret |-> ret,
     firstRunBefore |-> firstRunBefore, first |-> first]

NoOp == Op("construct", <<>>, {}, <<>>, FALSE, FALSE)

\* documents a store can hold when a session starts: nothing, a document an
\* earlier session saved, or a document of another version or shape
InitDocs ==
    {AbsentDoc}
    \cup {DocOf([seenSettings |-> s, lastConfigHash |-> NoHash, firstRun |-> f]) :
            s \in SUBSET Keys, f \in BOOLEAN}
    \cup {[DocOf(createDefaultState) EXCEPT !.version = 2, !.seenSettings = Keys],
          [DocOf(createDefaultState) EXCEPT !.seenOk = FALSE, !.seenIsMap = FALSE],
          [DocOf(createDefaultState) EXCEPT !.seenIsMap = FALSE],
          [DocOf(createDefaultState) EXCEPT !.seenIsMap = FALSE, !.firstRun = FALSE],
          [DocOf(createDefaultState) EXCEPT !.firstRunOk = FALSE, !.seenSettings = Keys]}

TrackerInit ==
    /\ stored \in InitDocs
    /\ trk = loadState(stored)
    /\ loadedFrom = DocClass(stored)
    /\ initialized = FALSE
    /\ lastOp = NoOp
    /\ prevOp = NoOp

\* new NewSettingsTracker(context): a later session over the same store; the
\* record keeps the keys the instance before it held as seen
Construct ==
    /\ trk' = loadState(stored)
    /\ loadedFrom' = DocClass(stored)
    /\ initialized' = FALSE
    /\ lastOp' = Op("construct", <<>>, trk.seenSettings, <<>>, trk.firstRun, TRUE)
    /\ prevOp' = NoOp
    /\ UNCHANGED <<stored, outsideTracker>>

Initialize(defs) ==
    /\ trk' = initializedState(trk, defs)
    /\ stored' = DocOf(trk')
    /\ initialized' = TRUE
    /\ lastOp' = Op("initialize", defs, {}, <<>>, trk.firstRun, ~initialized)
    /\ prevOp' = NoOp
    /\ UNCHANGED <<loadedFrom, outsideTracker>>

DetectNewSettings(defs) ==
    /\ trk' = IF trk.lastConfigHash = calculateConfigHash(defs) THEN trk
              ELSE [trk EXCEPT !.lastConfigHash = calculateConfigHash(defs)]
    /\ stored' = IF trk.lastConfigHash = calculateConfigHash(defs) THEN stored
                 ELSE DocOf(trk')
    /\ lastOp' = Op("detectNewSettings", defs, {}, detectResult(trk, defs), trk.firstRun, FALSE)
    /\ prevOp' = IF lastOp.op = "detectNewSettings" THEN lastOp ELSE NoOp
    /\ UNCHANGED <<loadedFrom, initialized, outsideTracker>>

MarkAsSeen(keys) ==
    /\ trk' = markedSeen(trk, keys)
    /\ stored' = DocOf(trk')
    /\ lastOp' = Op("markAsSeen", <<>>, keys, <<>>, trk.firstRun, FALSE)
    /\ prevOp' = NoOp
    /\ UNCHANGED <<loadedFrom, initialized, outsideTracker>>

MarkAllAsSeen(defs) ==
    /\ trk' = markedSeen(trk, KeysOf(defs))
    /\ stored' = DocOf(trk')
    /\ lastOp' = Op("markAllAsSeen", defs, {}, <<>>, trk.firstRun, FALSE)
    /\ prevOp' = NoOp
    /\ UNCHANGED <<loadedFrom, initialized, outsideTracker>>

ClearState ==
    /\ trk' = createDefaultState
    /\ stored' = DocOf(trk')
    /\ lastOp' = Op("clearState", <<>>, {}, <<>>, trk.firstRun, FALSE)
    /\ prevOp' = NoOp
    /\ UNCHANGED <<loadedFrom, initialized, outsideTracker>>

TrackerNext ==
    \/ Construct
    \/ \E defs \in DefLists : Initialize(defs)
    \/ \E defs \in DefLists : DetectNewSettings(defs)
    \/ \E keys \in SUBSET Keys : MarkAsSeen(keys)
    \/ \E defs \in DefLists : MarkAllAsSeen(defs)
    \/ ClearState

TrackerIdle ==
    /\ stored = AbsentDoc
    /\ trk = createDefaultState
    /\ loadedFrom = "absent"
    /\ initialized = FALSE
    /\ lastOp = NoOp
    /\ prevOp = NoOp

(***************************************************************************)
(* HttpService                                                             *)
(***************************************************************************)
\* response bodies are 0..NumBodies; 0 is the empty body
NumBodies == 2

Bodies == 0..NumBodies

\* A URL is its first 24 bytes and the rest: getCacheFileName keeps the first
\* 32 characters of the URL's base64 text, which encode the first 24 bytes.
\* The URLs of the model are two documents of one raw.githubusercontent.com
\* repository.
ObservedUrl == [head |-> "https://raw.githubuserco", rest |-> "ntent.com/o/r/main/a.json"]

OtherUrl == [head |-> "https://raw.githubuserco", rest |-> "ntent.com/o/r/main/b.json"]

URLs == {ObservedUrl, OtherUrl}

getCacheFileName(url) == url.head

CacheFileNames == {getCacheFileName(u) : u \in URLs}

\* no ETag header / no stored ETag
NoEtag == 0
\* the validator a server gives a body
EtagOf(body) == body + 1
\* fs.existsSync(cacheFile) is false
NoFile == -1

\* what the network gives for a request: a status with body and ETag header,
\* or a failed request (error or timeout)
Response(kind, status, data, etag) ==
    [kind |-> kind, status |-> status, data |-> data, etag |-> etag]

NetworkError == Response("neterr", 0, 0, NoEtag)

\* no request sent
NoResponse == Response("none", 0, 0, NoEtag)

\* The answers of a server holding `body` to a request carrying If-None-Match
\* inm (NoEtag: no such header): the body with or without a validator, 304 when
\* the validator sent matches, or an error status.
ServerResponses(body, inm) ==
    {Response("http", 200, body, e) : e \in {NoEtag, EtagOf(body)}}
    \cup {Response("http", 500, 0, NoEtag), NetworkError}
    \cup (IF inm # NoEtag /\ inm = EtagOf(body)
          THEN {Response("http", 304, 0, EtagOf(body))} ELSE {})

Is2xx(resp) == resp.kind = "http" /\ resp.status >= 200 /\ resp.status < 300

Outcome(kind, data, fromCache, etags, files) ==
    [kind |-> kind, data |-> data, fromCache |-> fromCache, etags |-> etags, files |-> files]

\* a catch block that rethrows without looking at the cache
getFallbackRethrowing(url, useCache, etags, files) ==
    Outcome("thrown", 0, FALSE, etags, files)

\* the catch block of get
getFallback(url, useCache, etags, files) ==
    IF useCache /\ files[getCacheFileName(url)] # NoFile
    THEN Outcome("returned", files[getCacheFileName(url)], TRUE, etags, files)
    ELSE Outcome("thrown", 0, FALSE, etags, files)

\* cacheResponse: the file, then the ETag when the response carries one
cacheResponse(url, resp, etags, files) ==
    [etags |-> IF resp.etag # NoEtag THEN [etags EXCEPT ![url] = resp.etag] ELSE etags,
     files |-> [files EXCEPT ![getCacheFileName(url)] = resp.data]]

\* get(url, useCache) once the request has been answered by resp
get(url, useCache, resp, etags, files) ==
    IF resp.kind = "neterr" THEN getFallback(url, useCache, etags, files)
    ELSE IF resp.status = 304 /\ useCache /\ files[getCacheFileName(url)] # NoFile
    THEN Outcome("returned", files[getCacheFileName(url)], TRUE, etags, files)
    ELSE IF ~Is2xx(resp) THEN getFallback(url, useCache, etags, files)
    ELSE IF useCache /\ resp.data # 0
    THEN LET c == cacheResponse(url, resp, etags, files)
         IN  Outcome("returned", resp.data, FALSE, c.etags, c.files)
    ELSE Outcome("returned", resp.data, FALSE, etags, files)

\* storeResponse of the second version when writeFileSync throws: the error is
\* ignored and the file stays as it was, the ETag is stored nevertheless when
\* the response carries one
storeResponseUnwritten(url, resp, etags, files) ==
    [etags |-> IF resp.etag # NoEtag THEN [etags EXCEPT ![url] = resp.etag] ELSE etags,
     files |-> files]

\* get of the second version, answered by resp, when the cache file cannot
\* be written
getUnwritten(url, useCache, resp, etags, files) ==
    IF Is2xx(resp) /\ useCache /\ resp.data # 0
    THEN LET c == storeResponseUnwritten(url, resp, etags, files)
         IN  Outcome("returned", resp.data, FALSE, c.etags, c.files)
    ELSE get(url, useCache, resp, etags, files)

\* the If-None-Match header get sends
IfNoneMatch(url, useCache, etags) == IF useCache THEN etags[url] ELSE NoEtag

\* n flips with every call, so that two equal calls in a row are two steps
GetRecord(url, useCache, resp, out, n) ==
    [url |-> url, useCache |-> useCache, resp |-> resp, kind |-> out.kind,
     data |-> out.data, fromCache |-> out.fromCache, n |-> n]

NoGet ==
    GetRecord(CHOOSE u \in URLs : TRUE, FALSE, NetworkError,
              Outcome("none", 0, FALSE, <<>>, <<>>), FALSE)

HttpInit ==
    /\ srvBody \in [URLs -> Bodies]
    /\ etagStore = [u \in URLs |-> NoEtag]
    /\ cacheFiles = [f \in CacheFileNames |-> NoFile]
    /\ cachedFor = NoFile
    /\ prevGet = NoFile
    /\ lastGet = NoGet

HttpIdle ==
    /\ srvBody = [u \in URLs |-> 0]
    /\ etagStore = [u \in URLs |-> NoEtag]
    /\ cacheFiles = [f \in CacheFileNames |-> NoFile]
    /\ cachedFor = NoFile
    /\ prevGet = NoFile
    /\ lastGet = NoGet

\* HttpService.get({url, useCache}): the request, the server's answer, the outcome
Get(url, useCache) ==
    \E resp \in ServerResponses(srvBody[url], IfNoneMatch(url, useCache, etagStore)) :
        LET out == get(url, useCache, resp, etagStore, cacheFiles)
        IN  /\ etagStore' = out.etags
            /\ cacheFiles' = out.files
            /\ cachedFor' = IF url = ObservedUrl /\ useCache /\ Is2xx(resp) /\ resp.data # 0
                            THEN resp.data ELSE cachedFor
            /\ prevGet' = IF url = ObservedUrl /\ useCache
                          THEN (IF out.kind = "returned" THEN out.data ELSE NoFile)
                          ELSE prevGet
            /\ lastGet' = GetRecord(url, useCache, resp, out, ~lastGet.n)
            /\ UNCHANGED <<srvBody, outsideHttp>>

\* HttpService.get({url, useCache}) of the second version while the cache
\* directory cannot be written
GetUnwritten(url, useCache) ==
    \E resp \in ServerResponses(srvBody[url], IfNoneMatch(url, useCache, etagStore)) :
        LET out == getUnwritten(url, useCache, resp, etagStore, cacheFiles)
        IN  /\ etagStore' = out.etags
            /\ cacheFiles' = out.files
            /\ prevGet' = IF url = ObservedUrl /\ useCache
                          THEN (IF out.kind = "returned" THEN out.data ELSE NoFile)
                          ELSE prevGet
            /\ lastGet' = GetRecord(url, useCache, resp, out, ~lastGet.n)
            /\ UNCHANGED <<srvBody, cachedFor, outsideHttp>>

\* the document behind a URL is edited on the server
ServerChange(url, body) ==
    /\ body # srvBody[url]
    /\ srvBody' = [srvBody EXCEPT ![url] = body]
    /\ prevGet' = IF url = ObservedUrl THEN NoFile ELSE prevGet
    /\ UNCHANGED <<etagStore, cacheFiles, cachedFor, lastGet, outsideHttp>>

HttpNext ==
    \/ \E url \in URLs, useCache \in BOOLEAN : Get(url, useCache)
    \/ \E url \in URLs, useCache \in BOOLEAN : GetUnwritten(url, useCache)
    \/ \E url \in URLs, body \in Bodies : ServerChange(url, body)


(***************************************************************************)
(* SchemaInferenceService.applyDefaultsToUserSettings                      *)
(***************************************************************************)
\* JSON values: undefined, booleans, numbers and strings (a string is its number)
Undefined == [t |-> "undefined", v |-> 0]

Bool(b) == [t |-> "boolean", v |-> IF b THEN 1 ELSE 0]

\* the JSON null as the value of a field
Null == [t |-> "null", v |-> 0]

Num(n) == [t |-> "number", v |-> n]

Str(n) == [t |-> "string", v |-> n]

\* a non-null object or array
Obj == [t |-> "object", v |-> 0]

\* String(value): a string stays itself; the texts of true/false, of the
\* numbers and of the other values are strings apart from those of the model
String(value) ==
    IF value.t = "string" THEN value
    ELSE IF value.t = "boolean" THEN Str(100 + value.v)
    ELSE IF value.t = "number" THEN Str(200 + value.v)
    ELSE IF value.t = "object" THEN Str(300)
    ELSE IF value.t = "null" THEN Str(301)
    ELSE Str(302)

Extensions == {"ext.one", "ext.two"}

\* what inspect(key) reports of a key nobody has set
Unset == [globalValue |-> Undefined, workspaceValue |-> Undefined,
          workspaceFolderValue |-> Undefined]

\* the fields of a SettingDefinition that applying defaults reads
Definition(key, type, default, min, options, requires) ==
    [key |-> key, type |-> type, default |-> default, min |-> min,
     options |-> options, requires |-> requires, recommended |-> Undefined, group |-> ""]

\* type, default, min and option values of the definitions applied
DefinitionShapes ==
    {<<"boolean", Undefined, Undefined, <<>>>>,
     <<"boolean", Bool(FALSE), Undefined, <<>>>>,
     <<"number", Undefined, Num(3), <<>>>>,
     <<"number", Undefined, Undefined, <<>>>>,
     <<"string", Undefined, Undefined, <<Str(7), Str(8)>>>>,
     <<"string", Undefined, Undefined, <<>>>>,
     <<"json", Undefined, Undefined, <<Str(7)>>>>}

RequiresLists == {<<>>, <<"ext.one">>, <<"ext.one", "ext.two">>}

Definitions ==
    {Definition(k, sh[1], sh[2], sh[3], sh[4], r) :
        k \in Keys, sh \in DefinitionShapes, r \in RequiresLists}

anyMissing(def, inst) == \E i \in 1..Len(def.requires) : def.requires[i] \notin inst

\* the same test without the workspace-folder scope
shouldApplyDefaultTwoScopes(def, c, inst) ==
    /\ ~anyMissing(def, inst)
    /\ ~(c[def.key].globalValue # Undefined \/ c[def.key].workspaceValue # Undefined)

shouldApplyDefault(def, c, inst) ==
    /\ ~anyMissing(def, inst)
    /\ ~(\/ c[def.key].globalValue # Undefined
         \/ c[def.key].workspaceValue # Undefined
         \/ c[def.key].workspaceFolderValue # Undefined)

\* the first option whatever the type
getDefaultValueAnyType(def) ==
    IF def.default # Undefined THEN def.default
    ELSE IF def.type = "boolean" THEN Bool(TRUE)
    ELSE IF def.type = "number" THEN (IF def.min # Undefined THEN def.min ELSE Num(1))
    ELSE IF Len(def.options) > 0 THEN def.options[1]
    ELSE Undefined

getDefaultValue(def) ==
    IF def.default # Undefined THEN def.default
    ELSE IF def.type = "boolean" THEN Bool(TRUE)
    ELSE IF def.type = "number" THEN (IF def.min # Undefined THEN def.min ELSE Num(1))
    ELSE IF def.type = "string" /\ Len(def.options) > 0 THEN def.options[1]
    ELSE Undefined

\* one iteration of the loop over a definition; updateOk: configuration.update
\* resolves (it rejects for a key no extension contributes, and the rejection
\* is swallowed)
applyDefault(def, c, inst, updateOk) ==
    IF shouldApplyDefault(def, c, inst) /\ getDefaultValue(def) # Undefined /\ updateOk
    THEN [c EXCEPT ![def.key].globalValue = getDefaultValue(def)]
    ELSE c

NoApply == [key |-> 0, requires |-> <<>>, def |-> <<>>, updateOk |-> TRUE]

\* the explicit values users have: false or nothing at each scope
DefaultsInit ==
    /\ cfg \in [Keys -> [globalValue : {Undefined, Bool(FALSE)},
                         workspaceValue : {Undefined, Bool(FALSE)},
                         workspaceFolderValue : {Undefined, Bool(FALSE)}]]
    /\ installed \in {{}, {"ext.one"}, Extensions}
    /\ lastApply = NoApply

DefaultsIdle ==
    /\ cfg = [k \in Keys |-> Unset]
    /\ installed = {}
    /\ lastApply = NoApply

\* applyDefaultsToUserSettings(definitions) awaits each update: an iteration
\* is a step, a call is the run of the iterations over its list.
ApplyDefault(def, updateOk) ==
    /\ cfg' = applyDefault(def, cfg, installed, updateOk)
    /\ lastApply' = [key |-> def.key, requires |-> def.requires, def |-> def,
                     updateOk |-> updateOk]
    /\ UNCHANGED <<installed, outsideDefaults>>

DefaultsNext == \E def \in Definitions, updateOk \in BOOLEAN : ApplyDefault(def, updateOk)


(***************************************************************************)
(* The configuration documents and their parsing                          *)
(***************************************************************************)
\* what findSchemaForKey finds among the schemas the installed extensions
\* contribute: key 1 is a boolean setting contributed by extension ext.one,
\* the last key is a setting of type ["number", "string"] contributed by
\* extension ext.two with a string default and an enum of a number and a
\* string, the other keys are contributed by nobody
NoSchema ==
    [found |-> FALSE, type |-> "", default |-> Undefined, minimum |-> Undefined,
     enum |-> <<>>, extensionId |-> ""]

findSchemaForKey(key, inst) ==
    IF key = 1 /\ "ext.one" \in inst
    THEN [found |-> TRUE, type |-> "boolean", default |-> Undefined,
          minimum |-> Undefined, enum |-> <<>>, extensionId |-> "ext.one"]
    ELSE IF key = NumKeys /\ key # 1 /\ "ext.two" \in inst
    THEN [found |-> TRUE, type |-> "number", default |-> Str(9),
          minimum |-> Undefined, enum |-> <<Num(3), Str(9)>>, extensionId |-> "ext.two"]
    ELSE NoSchema

\* an entry of a document's settings array; key 0: no string key, type "":
\* no type, Undefined: the field is absent; options.array FALSE: options is
\* a string; the entry has no recommended field
Entry(kind, key, type, default, min, options, requires, group, settings) ==
    [kind |-> kind, key |-> key, type |-> type, default |-> default, min |-> min,
     options |-> options, requires |-> requires, group |-> group, settings |-> settings,
     recommended |-> Undefined]

\* the entry with a recommended field
Recommending(entry, value) == [entry EXCEPT !.recommended = value]

NoOptions == [array |-> TRUE, values |-> <<>>]

NullEntry == Entry("null", 0, "", Undefined, Undefined, NoOptions, <<>>, "", <<>>)

SingleEntry(key, type, default, min, options, requires) ==
    Entry("object", key, type, default, min, options, requires, "", <<>>)

GroupEntry(group, requires, settings) ==
    Entry("object", 0, "", Undefined, Undefined, NoOptions, requires, group, settings)

\* a text: whether JSON.parse accepts it, whether the value is truthy,
\* whether it has a settings array, and the array
Text(parses, truthy, hasSettings, settings) ==
    [parses |-> parses, truthy |-> truthy, hasSettings |-> hasSettings,
     settings |-> settings]

\* The documents a server or the bundle can hold, by body number:
\*   1 not JSON           2 the JSON null        3 an object without settings
\*   4 a boolean setting, a null entry and an entry without key
\*   5 a group requiring ext.one with a number setting and a setting
\*     requiring ext.two
\*   6 a boolean setting followed by a setting whose options field is a
\*     string
Documents ==
    <<Text(FALSE, FALSE, FALSE, <<>>),
      Text(TRUE, FALSE, FALSE, <<>>),
      Text(TRUE, TRUE, FALSE, <<>>),
      Text(TRUE, TRUE, TRUE,
           <<SingleEntry(1, "", Undefined, Undefined, NoOptions, <<>>), NullEntry,
             SingleEntry(0, "boolean", Undefined, Undefined, NoOptions, <<>>)>>),
      Text(TRUE, TRUE, TRUE,
           <<GroupEntry("Chat", <<"ext.one">>,
                <<SingleEntry(NumKeys, "number", Undefined, Num(3), NoOptions, <<>>),
                  SingleEntry(1, "", Bool(FALSE), Undefined, NoOptions, <<"ext.two">>)>>)>>),
      Text(TRUE, TRUE, TRUE,
           <<SingleEntry(1, "boolean", Undefined, Undefined, NoOptions, <<>>),
             SingleEntry(NumKeys, "string", Undefined, Undefined,
                         [array |-> FALSE, values |-> <<>>], <<>>)>>)>>

DocBodies == 1..Len(Documents)

\* the fields of a SettingDefinition that enrichment computes
Properties(type, options, min, requires, default) ==
    [type |-> type, options |-> options, min |-> min, requires |-> requires,
     default |-> default]

inferFromSchema(schema, configDefault) ==
    IF ~schema.found
    THEN Properties("string", <<>>, Undefined, <<>>, configDefault)
    ELSE Properties(
            IF schema.type = "boolean" THEN "boolean"
            ELSE IF schema.type \in {"number", "integer"} THEN "number"
            ELSE IF schema.type \in {"object", "array"} THEN "json"
            ELSE "string",
            [i \in 1..Len(schema.enum) |-> String(schema.enum[i])],
            schema.minimum,
            IF schema.extensionId # "" THEN <<schema.extensionId>> ELSE <<>>,
            IF configDefault = Undefined /\ schema.default # Undefined
            THEN schema.default ELSE configDefault)

\* info.globalValue ?? info.workspaceValue ?? info.workspaceFolderValue ?? info.defaultValue
\* (?? passes over undefined and null alike)
sampleOf(key, c, inst) ==
    IF c[key].globalValue \notin {Undefined, Null} THEN c[key].globalValue
    ELSE IF c[key].workspaceValue \notin {Undefined, Null} THEN c[key].workspaceValue
    ELSE IF c[key].workspaceFolderValue \notin {Undefined, Null}
         THEN c[key].workspaceFolderValue
    ELSE findSchemaForKey(key, inst).default

refineFromConfiguration(key, properties, c, inst) ==
    IF sampleOf(key, c, inst) = Undefined THEN properties
    ELSE [properties EXCEPT
            !.type = IF sampleOf(key, c, inst).t \in {"boolean", "number"}
                     THEN sampleOf(key, c, inst).t
                     ELSE IF sampleOf(key, c, inst).t = "object" THEN "json" ELSE "string",
            !.default = IF properties.default = Undefined
                        THEN findSchemaForKey(key, inst).default ELSE properties.default]

\* applyConfigOverrides; a string for options has a length and no map: it throws
overridesThrow(config) == ~config.options.array

applyConfigOverrides(config, properties) ==
    Properties(
        IF config.type # "" THEN config.type ELSE properties.type,
        IF Len(config.options.values) > 0
        THEN [i \in 1..Len(config.options.values) |-> String(config.options.values[i])]
        ELSE properties.options,
        IF config.min # Undefined THEN config.min ELSE properties.min,
        IF Len(config.requires) > 0 THEN config.requires ELSE properties.requires,
        IF config.default # Undefined THEN config.default ELSE properties.default)

\* deriveGroupFromKey: key 1 is a chat.* setting, the others are editor.*
deriveGroupFromKey(key) == IF key = 1 THEN "Chat" ELSE "Editor"

\* the live value applied after the entry's own fields
enrichSettingDefinitionLiveWins(key, config, c, inst) ==
    LET properties ==
            refineFromConfiguration(key,
                applyConfigOverrides(config,
                    inferFromSchema(findSchemaForKey(key, inst), config.default)), c, inst)
    IN  [Definition(key, properties.type, properties.default, properties.min,
                    properties.options, properties.requires)
            EXCEPT !.recommended = config.recommended,
                   !.group = IF config.group # "" THEN config.group
                             ELSE deriveGroupFromKey(key)]

enrichSettingDefinition(key, config, c, inst) ==
    LET properties ==
            applyConfigOverrides(config,
                refineFromConfiguration(key,
                    inferFromSchema(findSchemaForKey(key, inst), config.default), c, inst))
    IN  [Definition(key, properties.type, properties.default, properties.min,
                    properties.options, properties.requires)
            EXCEPT !.recommended = config.recommended,
                   !.group = IF config.group # "" THEN config.group
                             ELSE deriveGroupFromKey(key)]

normalizeRequires(input) == input

\* Array.from(new Set(list)): the first occurrence of each member, in order
RECURSIVE uniqueInOrder(_)
uniqueInOrder(list) ==
    IF list = <<>> THEN <<>>
    ELSE LET front == uniqueInOrder(SubSeq(list, 1, Len(list) - 1))
             last  == list[Len(list)]
         IN  IF \E i \in 1..Len(front) : front[i] = last THEN front
             ELSE Append(front, last)

\* the member's own list alone
mergeRequiresMemberWins(a, b) == IF b # <<>> THEN b ELSE a

\* the members of a, then those of b, each once
mergeRequires(a, b) == uniqueInOrder(a \o b)

\* the group's recommended value given to every member
groupConfigsGroupWins(entry) ==
    LET keyed == SelectSeq(entry.settings, LAMBDA st : st.kind # "null" /\ st.key # 0)
    IN  [i \in 1..Len(keyed) |->
            [keyed[i] EXCEPT
                !.group = entry.group,
                !.recommended = entry.recommended,
                !.requires = mergeRequires(normalizeRequires(entry.requires),
                                           normalizeRequires(keyed[i].requires))]]

\* the settings of a group that have a key, each given the group's name, the
\* group's recommended value unless it has its own, and the group's requires
\* merged with its own
groupConfigs(entry) ==
    LET keyed == SelectSeq(entry.settings, LAMBDA st : st.kind # "null" /\ st.key # 0)
    IN  [i \in 1..Len(keyed) |->
            [keyed[i] EXCEPT
                !.group = entry.group,
                !.recommended = IF keyed[i].recommended # Undefined
                                THEN keyed[i].recommended ELSE entry.recommended,
                !.requires = mergeRequires(normalizeRequires(entry.requires),
                                           normalizeRequires(keyed[i].requires))]]

\* the configs parseConfiguration hands to enrichSettingDefinition, in order
RECURSIVE configsOf(_)
configsOf(entries) ==
    IF entries = <<>> THEN <<>>
    ELSE IF Head(entries).kind = "null" THEN configsOf(Tail(entries))
    ELSE IF Head(entries).group # "" THEN groupConfigs(Head(entries)) \o configsOf(Tail(entries))
    ELSE IF Head(entries).key # 0 THEN <<Head(entries)>> \o configsOf(Tail(entries))
    ELSE configsOf(Tail(entries))

\* the JSON null: what a failed fetch, read or parse leaves in json
JsonNull == Text(TRUE, FALSE, FALSE, <<>>)

\* parseConfiguration(json) under the settings c and the extensions inst:
\* the definitions, or threw when enriching an entry throws
parseConfiguration(json, c, inst) ==
    IF ~json.truthy \/ ~json.hasSettings
    THEN [threw |-> FALSE, definitions |-> <<>>]
    ELSE LET configs == configsOf(json.settings)
         IN  IF \E i \in 1..Len(configs) : overridesThrow(configs[i])
             THEN [threw |-> TRUE, definitions |-> <<>>]
             ELSE [threw |-> FALSE,
                   definitions |-> [i \in 1..Len(configs) |->
                        enrichSettingDefinition(configs[i].key, configs[i], c, inst)]]

\* the values a recommended field takes: absent, null, a boolean, a string
RecommendedValues == {Undefined, Null, Bool(TRUE), Bool(FALSE), Str(7)}

\* the requires lists a group and its members take
GroupRequires == {<<>>, <<"ext.one">>, <<"ext.one", "ext.two">>}

MemberRequires == {<<>>, <<"ext.two">>, <<"ext.two", "ext.one">>, <<"ext.two", "ext.two">>}

\* group containers of two members, one contributed by an extension and one
\* by nobody: over every recommended value of the group and of each member,
\* and over the requires lists of the group and of each member
GroupInputs ==
    {Recommending(
        GroupEntry("Chat", <<>>,
            <<Recommending(SingleEntry(1, "", Undefined, Undefined, NoOptions, <<>>), r1),
              Recommending(SingleEntry(NumKeys, "", Undefined, Undefined, NoOptions, <<>>), r2)>>),
        x) : x \in RecommendedValues, r1 \in RecommendedValues, r2 \in RecommendedValues}
    \cup
    {GroupEntry("Chat", g,
        <<SingleEntry(1, "", Undefined, Undefined, NoOptions, m1),
          SingleEntry(NumKeys, "", Undefined, Undefined, NoOptions, m2)>>) :
        g \in GroupRequires, m1 \in MemberRequires, m2 \in MemberRequires}

\* flat entries over both contributed keys, with and without a type of
\* their own (one of them none of the four), and with and without options
\* whose values are a number and a boolean
SingleInputs ==
    {SingleEntry(k, type, Undefined, Undefined, options, <<>>) :
        k \in {1, NumKeys},
        type \in {"", "boolean", "number", "string", "json", "integer"},
        options \in {NoOptions, [array |-> TRUE, values |-> <<Num(4), Bool(TRUE)>>]}}

\* what the scopes of a key hold
LiveLayers ==
    [globalValue : {Undefined, Null, Num(4)},
     workspaceValue : {Undefined, Str(7), Bool(FALSE)},
     workspaceFolderValue : {Undefined, Obj}]

\* no container parsed yet
NoGroup == GroupEntry("", <<>>, <<>>)

\* the text with a body number; body 0 is the empty text
TextOf(body) == Documents[((body - 1) % Len(Documents)) + 1]

\* JSON.parse(content) inside fetchRemoteConfig and loadBundledConfig: null
\* for no content and for a text that does not parse
jsonOrNull(content) ==
    IF content > 0 /\ TextOf(content).parses THEN TextOf(content) ELSE JsonNull

\* the loop of applyDefaultsToUserSettings over a list; accepted: the keys
\* whose configuration.update resolves
RECURSIVE applyDefaultsToUserSettings(_, _, _, _)
applyDefaultsToUserSettings(definitions, c, inst, accepted) ==
    IF definitions = <<>> THEN c
    ELSE applyDefaultsToUserSettings(Tail(definitions),
            applyDefault(Head(definitions), c, inst, Head(definitions).key \in accepted),
            inst, accepted)

\* the keys whose update the loop attempted and saw rejected
RECURSIVE rejectedUpdates(_, _, _, _)
rejectedUpdates(definitions, c, inst, accepted) ==
    IF definitions = <<>> THEN {}
    ELSE LET def == Head(definitions)
         IN  (IF /\ shouldApplyDefault(def, c, inst)
                 /\ getDefaultValue(def) # Undefined
                 /\ def.key \notin accepted
              THEN {def.key} ELSE {})
             \cup rejectedUpdates(Tail(definitions),
                        applyDefault(def, c, inst, def.key \in accepted), inst, accepted)

ConfigurationLoadResult(definitions, source) ==
    [definitions |-> definitions, source |-> source]

\* the catch block of loadConfiguration fires nothing
loadConfigurationSilentOnFailure(hasUrl, content, bundledContent, c, inst) ==
    LET remote == IF hasUrl THEN jsonOrNull(content) ELSE JsonNull
        json   == IF remote.truthy THEN remote ELSE jsonOrNull(bundledContent)
        parsed == parseConfiguration(json, c, inst)
        result == ConfigurationLoadResult(parsed.definitions,
                        IF remote.truthy THEN "remote" ELSE "local")
    IN  IF parsed.threw
        THEN [result |-> ConfigurationLoadResult(<<>>, "local"), fired |-> <<>>,
              threw |-> TRUE]
        ELSE [result |-> result, fired |-> <<result>>, threw |-> FALSE]

\* source is remote whenever a URL is configured
loadConfigurationRemoteByUrl(hasUrl, content, bundledContent, c, inst) ==
    LET remote == IF hasUrl THEN jsonOrNull(content) ELSE JsonNull
        json   == IF remote.truthy THEN remote ELSE jsonOrNull(bundledContent)
        parsed == parseConfiguration(json, c, inst)
        result == ConfigurationLoadResult(parsed.definitions,
                        IF hasUrl THEN "remote" ELSE "local")
    IN  IF parsed.threw
        THEN [result |-> ConfigurationLoadResult(<<>>, "local"),
              fired |-> <<ConfigurationLoadResult(<<>>, "local")>>, threw |-> TRUE]
        ELSE [result |-> result, fired |-> <<result>>, threw |-> FALSE]

\* loadConfiguration once the remote content (0: none) and the bundled file
\* (0: none) are read, under the settings c and the extensions inst: the
\* result returned, the payloads fired, and whether the try block threw
loadConfiguration(hasUrl, content, bundledContent, c, inst) ==
    LET remote == IF hasUrl THEN jsonOrNull(content) ELSE JsonNull
        json   == IF remote.truthy THEN remote ELSE jsonOrNull(bundledContent)
        parsed == parseConfiguration(json, c, inst)
        result == ConfigurationLoadResult(parsed.definitions,
                        IF remote.truthy THEN "remote" ELSE "local")
    IN  IF parsed.threw
        THEN [result |-> ConfigurationLoadResult(<<>>, "local"),
              fired |-> <<ConfigurationLoadResult(<<>>, "local")>>, threw |-> TRUE]
        ELSE [result |-> result, fired |-> <<result>>, threw |-> FALSE]


(***************************************************************************)
(* StateManager: the snapshot sent to the webview                          *)
(***************************************************************************)
\* the fields of a SettingDefinition that buildWebviewState reads
StateDefinition(key, type, group, recommended, requires) ==
    [key |-> key, type |-> type, group |-> group, recommended |-> recommended,
     requires |-> requires]

\* config.get(key): the value of the innermost scope that has one, else the
\* default the schema of an installed extension gives
configGet(key, c, inst) ==
    IF c[key].workspaceFolderValue # Undefined THEN c[key].workspaceFolderValue
    ELSE IF c[key].workspaceValue # Undefined THEN c[key].workspaceValue
    ELSE IF c[key].globalValue # Undefined THEN c[key].globalValue
    ELSE findSchemaForKey(key, inst).default

\* Boolean(value); the string 0 is the empty string
Truthy(value) ==
    CASE value.t = "boolean" -> value.v = 1
      [] value.t = "number" -> value.v # 0
      [] value.t = "string" -> value.v # 0
      [] value.t = "object" -> TRUE
      [] OTHER -> FALSE

\* Number(value): the strings 200 + n are the texts of the numbers n, the
\* empty string and null are 0, the other strings, undefined and objects
\* are NaN
ToNumber(value) ==
    CASE value.t = "boolean" -> [nan |-> FALSE, n |-> value.v]
      [] value.t = "number" -> [nan |-> FALSE, n |-> value.v]
      [] value.t = "string" /\ value.v = 0 -> [nan |-> FALSE, n |-> 0]
      [] value.t = "string" /\ value.v \in 200..299 -> [nan |-> FALSE, n |-> value.v - 200]
      [] value.t = "null" -> [nan |-> FALSE, n |-> 0]
      [] OTHER -> [nan |-> TRUE, n |-> 0]

\* JSON.stringify(value): the text of String(value) for booleans, numbers
\* and null, a quoted text for a string, {} for the object, and no text at
\* all for undefined
stringify(value) ==
    CASE value.t = "string" -> Str(400 + value.v)
      [] value.t = "object" -> Str(303)
      [] value.t = "undefined" -> Undefined
      [] OTHER -> String(value)

\* a === b: two objects are never the same object
strictEquals(a, b) == a.t # "object" /\ a = b

\* every type compared with ===
compareValuesStrictly(currentValue, recommendedValue, type) ==
    IF currentValue \in {Undefined, Null} THEN recommendedValue \in {Undefined, Null}
    ELSE strictEquals(currentValue, recommendedValue)

compareValues(currentValue, recommendedValue, type) ==
    IF currentValue \in {Undefined, Null} THEN recommendedValue \in {Undefined, Null}
    ELSE CASE type = "boolean" -> Truthy(currentValue) = Truthy(recommendedValue)
           [] type = "number" ->
                /\ ~ToNumber(currentValue).nan
                /\ ~ToNumber(recommendedValue).nan
                /\ ToNumber(currentValue).n = ToNumber(recommendedValue).n
           [] type = "string" -> String(currentValue) = String(recommendedValue)
           [] type = "json" -> stringify(currentValue) = stringify(recommendedValue)
           [] OTHER -> strictEquals(currentValue, recommendedValue)

\* the definitions with hasRecommendation and matchesRecommendation
evaluateRecommendations(definitions, c, inst) ==
    [i \in 1..Len(definitions) |->
        LET def == definitions[i]
        IN  [key |-> def.key, type |-> def.type, group |-> def.group,
             recommended |-> def.recommended, requires |-> def.requires,
             hasRecommendation |-> def.recommended # Undefined,
             matchesRecommendation |->
                /\ def.recommended # Undefined
                /\ compareValues(configGet(def.key, c, inst), def.recommended, def.type)]]

\* every definition without a match counted as differing
calculateRecommendationSummaryAll(definitions) ==
    LET has == {i \in 1..Len(definitions) : definitions[i].hasRecommendation}
        matching == {i \in has : definitions[i].matchesRecommendation}
    IN  [total |-> Cardinality(has), matching |-> Cardinality(matching),
         differing |-> Len(definitions) - Cardinality(matching)]

calculateRecommendationSummary(definitions) ==
    LET has == {i \in 1..Len(definitions) : definitions[i].hasRecommendation}
        matching == {i \in has : definitions[i].matchesRecommendation}
    IN  [total |-> Cardinality(has), matching |-> Cardinality(matching),
         differing |-> Cardinality(has \ matching)]

\* the new-setting annotation: isNew of each definition, the count of the
\* new ones, whether there is any, and the count of each group
annotateNewSettings(definitions, st) ==
    LET isNew == [i \in 1..Len(definitions) |-> isSettingNew(st, definitions[i].key)]
        new == {i \in 1..Len(definitions) : isNew[i]}
    IN  [isNew |-> isNew,
         newSettingsCount |-> Cardinality(new),
         hasNewSettings |-> Cardinality(new) > 0,
         newSettingsByGroup |->
            [g \in {definitions[i].group : i \in 1..Len(definitions)} |->
                Cardinality({i \in new : definitions[i].group = g})]]

\* buildWebviewState that marks what it shows as seen
buildWebviewStateMarkingSeen(definitions, c, inst, st, pend, checked) ==
    LET evaluated == evaluateRecommendations(definitions, c, inst)
        annotated == annotateNewSettings(definitions, st)
    IN  [state |->
            [definitions |-> [i \in 1..Len(definitions) |->
                [key |-> evaluated[i].key, type |-> evaluated[i].type,
                 group |-> evaluated[i].group, recommended |-> evaluated[i].recommended,
                 requires |-> evaluated[i].requires,
                 hasRecommendation |-> evaluated[i].hasRecommendation,
                 matchesRecommendation |-> evaluated[i].matchesRecommendation,
                 missingExtensions |->
                    SelectSeq(evaluated[i].requires, LAMBDA id : id \notin inst),
                 isNew |-> annotated.isNew[i]]],
             settings |-> [k \in {definitions[i].key : i \in 1..Len(definitions)} |->
                                configGet(k, c, inst)],
             groups |-> uniqueInOrder([i \in 1..Len(definitions) |-> definitions[i].group]),
             remotePending |-> Truthy(pend),
             remoteLastChecked |-> checked,
             recommendationSummary |-> calculateRecommendationSummary(evaluated),
             newSettingsCount |-> annotated.newSettingsCount,
             hasNewSettings |-> annotated.hasNewSettings,
             newSettingsByGroup |-> annotated.newSettingsByGroup],
         cfg |-> c,
         trk |-> markedSeen(st, {definitions[i].key : i \in 1..Len(definitions)}),
         pending |-> pend,
         lastChecked |-> checked]

\* buildWebviewState(definitions) under the settings c, the extensions inst,
\* the tracker state st and the persisted flag and timestamp: the snapshot,
\* and the settings, tracker state, flag and timestamp the call leaves
buildWebviewState(definitions, c, inst, st, pend, checked) ==
    LET evaluated == evaluateRecommendations(definitions, c, inst)
        annotated == annotateNewSettings(definitions, st)
    IN  [state |->
            [definitions |-> [i \in 1..Len(definitions) |->
                [key |-> evaluated[i].key, type |-> evaluated[i].type,
                 group |-> evaluated[i].group, recommended |-> evaluated[i].recommended,
                 requires |-> evaluated[i].requires,
                 hasRecommendation |-> evaluated[i].hasRecommendation,
                 matchesRecommendation |-> evaluated[i].matchesRecommendation,
                 missingExtensions |->
                    SelectSeq(evaluated[i].requires, LAMBDA id : id \notin inst),
                 isNew |-> annotated.isNew[i]]],
             settings |-> [k \in {definitions[i].key : i \in 1..Len(definitions)} |->
                                configGet(k, c, inst)],
             groups |-> uniqueInOrder([i \in 1..Len(definitions) |-> definitions[i].group]),
             remotePending |-> Truthy(pend),
             remoteLastChecked |-> checked,
             recommendationSummary |-> calculateRecommendationSummary(evaluated),
             newSettingsCount |-> annotated.newSettingsCount,
             hasNewSettings |-> annotated.hasNewSettings,
             newSettingsByGroup |-> annotated.newSettingsByGroup],
         cfg |-> c,
         trk |-> st,
         pending |-> pend,
         lastChecked |-> checked]

\* no snapshot built yet
NoState == [built |-> FALSE]

\* the provider: which of the two bodies of startExternalWatchers it has
\* (1: the listener reads the loaded list, 2: it keeps the keys the list had
\* when it was set up), whether the view is resolved, where
\* resolveWebviewView stands, the keys kept
Provider(version, view, pc, settingKeys) ==
    [version |-> version, view |-> view, pc |-> pc, settingKeys |-> settingKeys]

\* the provider as activate leaves it: startExternalWatchers has run over
\* the empty list, no view yet
NoProvider == Provider(1, FALSE, "active", {})

\* the values a setting or a recommendation takes: nothing, null, booleans,
\* 0 and 1, the empty string, the text of 1, another string, an object
LiveValues ==
    {Undefined, Null, Bool(TRUE), Bool(FALSE), Num(0), Num(1), Str(0), Str(201), Str(7), Obj}

\* the lists handed to buildWebviewState: none, one definition of every type
\* (and of a type that is none of the four) with every recommendation, and
\* two definitions of one group and of two, with and without a
\* recommendation, of different keys and of one key
StateInputs ==
    {<<>>}
    \cup {<<StateDefinition(1, type, "Chat", rec, <<>>)>> :
            type \in {"boolean", "number", "string", "json", "integer"}, rec \in LiveValues}
    \cup {<<StateDefinition(1, "boolean", g, r[1], <<"ext.one", "ext.two">>),
            StateDefinition(k, "boolean", "Chat", r[2], <<>>)>> :
            g \in {"Chat", "Editor"},
            r \in {Undefined, Bool(TRUE)} \X {Undefined, Bool(TRUE)},
            k \in {1, NumKeys}}


(***************************************************************************)
(* ConfigurationService                                                    *)
(***************************************************************************)
\* the values of onByDefault.remoteConfigUrl: none, a raw URL, a gist page
NoUrl == [head |-> "", rest |-> ""]

GistUrl == [head |-> "https://gist.github.com/", rest |-> "octo/0a1b2c3d4e5f"]

RemoteUrls == {NoUrl, ObservedUrl, GistUrl}

\* resolveToRawUrl: 'gist:<id>' for a gist page, the URL itself otherwise
resolveToRawUrl(url) == [gist |-> url = GistUrl, url |-> url]

\* globalState.get of a key never written, and the null refresh stores
NoSnapshot == -1

NullSnapshot == 0

NeverChecked == 0

\* fetchGistContent(gistId) once the API request is answered by resp, whose
\* data is the content of the gist's config file (0: no such file, or a
\* document that does not parse)
fetchGistContent(resp, getag, gfile) ==
    IF resp.kind = "neterr" THEN [content |-> 0, etag |-> getag, file |-> gfile]
    ELSE IF resp.status = 304
    THEN [content |-> IF gfile # NoFile THEN gfile ELSE 0, etag |-> getag, file |-> gfile]
    ELSE IF ~Is2xx(resp) \/ resp.data = 0
    THEN [content |-> 0, etag |-> getag, file |-> gfile]
    ELSE IF resp.etag # NoEtag
    THEN [content |-> resp.data, etag |-> resp.etag, file |-> resp.data]
    ELSE [content |-> resp.data, etag |-> getag, file |-> gfile]

\* what a fetch leaves: the content (0: null) and the cache state
Fetched(content, etags, files, getag, gfile) ==
    [content |-> content, etags |-> etags, files |-> files, getag |-> getag, gfile |-> gfile]

fetchVia(url, useCache, resp, etags, files, getag, gfile) ==
    IF resolveToRawUrl(url).gist
    THEN LET g == fetchGistContent(resp, getag, gfile)
         IN  Fetched(g.content, etags, files, g.etag, g.file)
    ELSE LET out == get(url, useCache, resp, etags, files)
         IN  Fetched(IF out.kind = "returned" THEN out.data ELSE 0,
                     out.etags, out.files, getag, gfile)

\* fetchRemoteConfig up to its JSON.parse: the content a load obtains
fetchRemoteConfig(url, resp, etags, files, getag, gfile) ==
    fetchVia(url, TRUE, resp, etags, files, getag, gfile)

\* the same through the caching get
fetchRawRemoteConfigCaching(url, resp, etags, files, getag, gfile) ==
    fetchVia(url, TRUE, resp, etags, files, getag, gfile)

\* fetchRawRemoteConfig: the raw text a check obtains
fetchRawRemoteConfig(url, resp, etags, files, getag, gfile) ==
    fetchVia(url, FALSE, resp, etags, files, getag, gfile)

\* the If-None-Match header of the request a fetch sends, when there is a URL
fetchIfNoneMatch(url, useCache, etags, getag) ==
    IF url = NoUrl THEN NoEtag
    ELSE IF resolveToRawUrl(url).gist THEN getag
    ELSE IfNoneMatch(url, useCache, etags)

\* the answers to a request: the server holds any of the texts in held
AnyServerResponses(held, inm) ==
    UNION {ServerResponses(body, inm) : body \in held}

\* the flag and the snapshot are cleared before the load
refreshConfigurationClearingFirst == <<"clearPendingFlag", "clearSnapshot", "loadConfiguration">>

\* the awaited statements of the two calls that load
refreshConfiguration == <<"loadConfiguration", "clearPendingFlag", "clearSnapshot">>

Statements(op) == IF op = "refresh" THEN refreshConfiguration ELSE <<"loadConfiguration">>

NoOutcome == [result |-> ConfigurationLoadResult(<<>>, "local"), fired |-> <<>>, threw |-> FALSE]

\* a call that loads: op, the statement it is at, where it stands (idle: no
\* call yet, fetching: inside loadConfiguration, run: between statements,
\* done), the If-None-Match of its request, the answer to it, and what its
\* loadConfiguration returned and fired after its fetch obtained content
\* (0: none)
LoadCall(op, at, pc, inm, resp, content, out, rejected) ==
    [op |-> op, at |-> at, pc |-> pc, inm |-> inm, resp |-> resp, content |-> content,
     out |-> out, rejected |-> rejected]

NoLoad == LoadCall("load", 1, "idle", NoEtag, NoResponse, 0, NoOutcome, {})

\* the call after the statement it was at
Advance(call) ==
    IF call.at = Len(Statements(call.op))
    THEN [call EXCEPT !.pc = "done"]
    ELSE [call EXCEPT !.pc = "run", !.at = call.at + 1]

\* a checkForRemoteUpdates call: who started it, where it stands, the
\* If-None-Match of its request, the text it obtained, what it decided and
\* what it returned
CheckCall(by, pc, inm, text, decision, ret) ==
    [by |-> by, pc |-> pc, inm |-> inm, text |-> text, decision |-> decision, ret |-> ret]

NoCheck == CheckCall("demand", "idle", NoEtag, 0, "none", FALSE)

\* the call once it has returned ret
Returned(call, ret) == [call EXCEPT !.pc = "done", !.inm = NoEtag, !.text = 0, !.ret = ret]

\* only a snapshot never written counts as none
compareWithSnapshotUndefinedOnly(lastKnownRaw, rawText) ==
    IF lastKnownRaw = NoSnapshot THEN "seed"
    ELSE IF lastKnownRaw # rawText THEN "changed"
    ELSE "same"

\* a differing text replaces the snapshot
compareWithSnapshotOverwriting(lastKnownRaw, rawText) ==
    IF lastKnownRaw # rawText THEN "seed" ELSE "same"

\* only the first check records its time
setLastCheckedOnce(checked) == IF checked = NeverChecked THEN 1 ELSE checked

\* setLastChecked(): the time of the call, which is not the time stored
\* (times are 1 and 2 in turn)
setLastChecked(checked) == (checked % 2) + 1

\* the decision of checkForRemoteUpdates once it has the text
compareWithSnapshot(lastKnownRaw, rawText) ==
    IF lastKnownRaw \in {NoSnapshot, NullSnapshot} THEN "seed"
    ELSE IF lastKnownRaw # rawText THEN "changed"
    ELSE "same"

BundledContents == {0, 1, 5, 6}

\* the remote document is edited at most once over a run: it takes one or
\* two of the texts (0: the empty text)
HostedTexts == {{a, b} : a, b \in 0..Len(Documents)}

\* a fresh install
ConfigInit ==
    /\ pending = Undefined
    /\ lastRaw = NoSnapshot
    /\ lastChecked = NeverChecked
    /\ gistEtag = NoEtag
    /\ gistFile = NoFile
    /\ load = NoLoad
    /\ load2 = NoLoad
    /\ check = NoCheck
    /\ pollTimer = FALSE
    /\ scheduled = 0
    /\ listening = TRUE
    /\ settingDefinitions = <<>>
    /\ parseInput = NoGroup
    /\ parseOutput = <<>>
    /\ webviewState = NoState
    /\ provider = NoProvider

ConfigIdle ==
    /\ remoteUrl = NoUrl
    /\ bundled = 0
    /\ hosted = {0}
    /\ pending = Undefined
    /\ lastRaw = NoSnapshot
    /\ lastChecked = NeverChecked
    /\ gistEtag = NoEtag
    /\ gistFile = NoFile
    /\ load = NoLoad
    /\ load2 = NoLoad
    /\ check = NoCheck
    /\ pollTimer = FALSE
    /\ scheduled = 0
    /\ listening = TRUE
    /\ settingDefinitions = <<>>
    /\ parseInput = NoGroup
    /\ parseOutput = <<>>
    /\ webviewState = NoState
    /\ provider = NoProvider

\* the statement `at` of a call begins: loadConfiguration runs up to its
\* fetch, the two globalState updates take effect at once
Run(op, at) ==
    LET stmt == Statements(op)[at]
        call == LoadCall(op, at, "run", NoEtag,
                         IF at = 1 THEN NoResponse ELSE load.resp,
                         IF at = 1 THEN 0 ELSE load.content,
                         IF at = 1 THEN NoOutcome ELSE load.out,
                         IF at = 1 THEN {} ELSE load.rejected)
    IN  /\ load' = IF stmt = "loadConfiguration"
                   THEN [call EXCEPT !.pc = "fetching",
                            !.inm = fetchIfNoneMatch(remoteUrl, TRUE, etagStore, gistEtag)]
                   ELSE Advance(call)
        /\ pending' = IF stmt = "clearPendingFlag" THEN Bool(FALSE) ELSE pending
        /\ lastRaw' = IF stmt = "clearSnapshot" THEN NullSnapshot ELSE lastRaw
        /\ UNCHANGED <<remoteUrl, bundled, hosted, lastChecked, gistEtag, gistFile, check, pollTimer, scheduled,
                       settingDefinitions, etagStore, cacheFiles, cfg, outsideConfig>>

\* loadConfiguration() or refreshConfiguration() is called
Call(op) ==
    /\ load.pc \in {"idle", "done"}
    /\ Run(op, 1)

\* the call resumes after an await between two statements
Continue ==
    /\ load.pc = "run"
    /\ Run(load.op, load.at)

\* the provider's listener of onConfigurationChanged: the list it holds after
\* the payloads fired
onConfigurationChangedMerging(definitions, fired) ==
    IF fired = <<>> THEN definitions
    ELSE definitions \o fired[Len(fired)].definitions

onConfigurationChanged(definitions, fired) ==
    IF fired = <<>> THEN definitions
    ELSE fired[Len(fired)].definitions

\* the rest of a loadConfiguration whose fetch was answered resp: bundled
\* fallback, parse, defaults (accepted: the keys whose writes the settings
\* accept), the notification and its listener
loadConfigurationResumes(call, resp, accepted) ==
    LET f   == IF remoteUrl = NoUrl
               THEN Fetched(0, etagStore, cacheFiles, gistEtag, gistFile)
               ELSE fetchRemoteConfig(remoteUrl, resp, etagStore, cacheFiles,
                                      gistEtag, gistFile)
        out == loadConfiguration(remoteUrl # NoUrl, f.content, bundled, cfg, installed)
    IN  [fetched |-> f,
         cfg |-> IF out.threw THEN cfg
                 ELSE applyDefaultsToUserSettings(out.result.definitions, cfg,
                                                  installed, accepted),
         definitions |-> IF listening THEN onConfigurationChanged(settingDefinitions, out.fired)
                         ELSE settingDefinitions,
         call |-> Advance([call EXCEPT !.inm = NoEtag,
                                       !.resp = IF remoteUrl = NoUrl THEN NoResponse ELSE resp,
                                       !.content = f.content, !.out = out,
                                       !.rejected =
                                            IF out.threw THEN {}
                                            ELSE rejectedUpdates(out.result.definitions,
                                                    cfg, installed, accepted)])]

\* every way the rest of a loadConfiguration can run: over the answers to its
\* fetch and over the settings accepting or rejecting the writes
loadConfigurationOutcomes(call) ==
    {loadConfigurationResumes(call, resp, accepted) :
        resp \in (IF remoteUrl = NoUrl THEN {NetworkError}
                  ELSE AnyServerResponses(hosted, call.inm)),
        accepted \in SUBSET Keys}

\* the fetch of loadConfiguration is answered; the rest of loadConfiguration runs
FinishLoad ==
    /\ load.pc = "fetching"
    /\ \E r \in loadConfigurationOutcomes(load) :
        /\ etagStore' = r.fetched.etags
        /\ cacheFiles' = r.fetched.files
        /\ gistEtag' = r.fetched.getag
        /\ gistFile' = r.fetched.gfile
        /\ cfg' = r.cfg
        /\ settingDefinitions' = r.definitions
        /\ load' = r.call
    /\ UNCHANGED <<remoteUrl, bundled, hosted, pending, lastRaw, lastChecked, check, pollTimer,
                   scheduled, outsideConfig>>

\* handleRemoteConfigUrlChange while a load is in flight: a second
\* loadConfiguration runs up to its fetch
CallOverlapping ==
    /\ load.pc = "fetching"
    /\ load2.pc \in {"idle", "done"}
    /\ load2' = LoadCall("load", 1, "fetching",
                         fetchIfNoneMatch(remoteUrl, TRUE, etagStore, gistEtag),
                         NoResponse, 0, NoOutcome, {})
    /\ UNCHANGED <<trackerVars, httpVars, defaultsVars, remoteUrl, bundled, hosted, pending,
                   lastRaw, lastChecked, gistEtag, gistFile, load, check, pollTimer, scheduled,
                   listening, settingDefinitions, parseInput, parseOutput, webviewState, provider>>

\* the fetch of the second loadConfiguration is answered
FinishOverlapping ==
    /\ load2.pc = "fetching"
    /\ \E r \in loadConfigurationOutcomes(load2) :
        /\ etagStore' = r.fetched.etags
        /\ cacheFiles' = r.fetched.files
        /\ gistEtag' = r.fetched.getag
        /\ gistFile' = r.fetched.gfile
        /\ cfg' = r.cfg
        /\ settingDefinitions' = r.definitions
        /\ load2' = r.call
    /\ UNCHANGED <<trackerVars, srvBody, cachedFor, prevGet, lastGet, installed, lastApply,
                   remoteUrl, bundled, hosted, pending, lastRaw, lastChecked, load, check,
                   pollTimer, scheduled, listening, parseInput, parseOutput, webviewState, provider>>

\* checkForRemoteUpdates() begins: without a URL it clears the flag and
\* returns false, otherwise it sends its request
BeginCheck(by) ==
    /\ check.pc \in {"idle", "done"}
    /\ check' = IF remoteUrl = NoUrl
                THEN CheckCall(by, "done", NoEtag, 0, "none", FALSE)
                ELSE CheckCall(by, "fetching",
                               fetchIfNoneMatch(remoteUrl, FALSE, etagStore, gistEtag),
                               0, "none", FALSE)
    /\ pending' = IF remoteUrl = NoUrl THEN Bool(FALSE) ELSE pending
    /\ UNCHANGED <<remoteUrl, bundled, hosted, lastRaw, lastChecked, gistEtag, gistFile, load,
                   settingDefinitions, etagStore, cacheFiles, cfg, outsideConfig>>

\* handleCheckRemoteNow: the check on demand
CheckNow == BeginCheck("demand") /\ UNCHANGED <<pollTimer, scheduled>>

\* startPolling without its test of the handle
startPollingAgain(timer, intervals) ==
    [pollTimer |-> TRUE, scheduled |-> intervals + 1, started |-> TRUE]

\* startPolling(): nothing when the handle is set, otherwise an immediate
\* check and a new interval, whose handle is kept
startPolling(timer, intervals) ==
    IF timer THEN [pollTimer |-> timer, scheduled |-> intervals, started |-> FALSE]
    ELSE [pollTimer |-> TRUE, scheduled |-> intervals + 1, started |-> TRUE]

\* stopPolling(): the interval of the handle is cleared and the handle unset
stopPolling(timer, intervals) ==
    IF timer THEN [pollTimer |-> FALSE, scheduled |-> intervals - 1]
    ELSE [pollTimer |-> timer, scheduled |-> intervals]

StartPolling ==
    LET r == startPolling(pollTimer, scheduled)
    IN  /\ pollTimer' = r.pollTimer
        /\ scheduled' = r.scheduled
        /\ IF r.started THEN BeginCheck("timer")
           ELSE UNCHANGED <<remoteUrl, bundled, hosted, pending, lastRaw, lastChecked, gistEtag,
                            gistFile, load, check, settingDefinitions, etagStore, cacheFiles,
                            cfg, outsideConfig>>

\* an interval elapses
PollTick ==
    /\ scheduled > 0
    /\ BeginCheck("timer")
    /\ UNCHANGED <<pollTimer, scheduled>>

StopPolling ==
    /\ pollTimer' = stopPolling(pollTimer, scheduled).pollTimer
    /\ scheduled' = stopPolling(pollTimer, scheduled).scheduled
    /\ UNCHANGED <<remoteUrl, bundled, hosted, pending, lastRaw, lastChecked, gistEtag, gistFile,
                   load, check, settingDefinitions, etagStore, cacheFiles, cfg, outsideConfig>>

\* OnByDefaultSettingsWebviewProvider.dispose(): the provider's subscriptions
\* are disposed, the listener of onConfigurationChanged among them, then
\* stopPolling()
DisposeProvider ==
    /\ listening' = FALSE
    /\ pollTimer' = stopPolling(pollTimer, scheduled).pollTimer
    /\ scheduled' = stopPolling(pollTimer, scheduled).scheduled
    /\ UNCHANGED <<trackerVars, httpVars, defaultsVars, remoteUrl, bundled, hosted, pending,
                   lastRaw, lastChecked, gistEtag, gistFile, load, load2, check,
                   settingDefinitions, parseInput, parseOutput, webviewState, provider>>

\* ConfigurationService.dispose(): stopPolling(), then the disposables that
\* startPolling registered, each clearing the interval of the handle when it
\* is set, then the emitter, which takes its listeners with it
DisposeService ==
    LET stopped == stopPolling(pollTimer, scheduled)
        cleared == stopPolling(stopped.pollTimer, stopped.scheduled)
    IN  /\ listening' = FALSE
        /\ pollTimer' = cleared.pollTimer
        /\ scheduled' = cleared.scheduled
        /\ UNCHANGED <<trackerVars, httpVars, defaultsVars, remoteUrl, bundled, hosted, pending,
                       lastRaw, lastChecked, gistEtag, gistFile, load, load2, check,
                       settingDefinitions, parseInput, parseOutput, webviewState, provider>>

\* the request of the check is answered: without text the check returns
\* false, with text it records the time of the check
CheckFetched ==
    /\ check.pc = "fetching"
    /\ \E resp \in AnyServerResponses(hosted, check.inm) :
        LET f == fetchRawRemoteConfig(remoteUrl, resp, etagStore, cacheFiles,
                                      gistEtag, gistFile)
        IN  /\ etagStore' = f.etags
            /\ cacheFiles' = f.files
            /\ gistEtag' = f.getag
            /\ gistFile' = f.gfile
            /\ check' = IF f.content = 0 THEN Returned(check, FALSE)
                        ELSE [check EXCEPT !.pc = "compare", !.text = f.content]
            /\ lastChecked' = IF f.content = 0 THEN lastChecked
                               ELSE setLastChecked(lastChecked)
    /\ UNCHANGED <<remoteUrl, bundled, hosted, pending, lastRaw, load, pollTimer, scheduled,
                   settingDefinitions, cfg, outsideConfig>>

\* after setLastChecked: the snapshot is read and compared
CheckCompare ==
    /\ check.pc = "compare"
    /\ LET decision == compareWithSnapshot(lastRaw, check.text)
       IN  /\ lastRaw' = IF decision = "seed" THEN check.text ELSE lastRaw
           /\ pending' = IF decision = "changed" THEN Bool(TRUE)
                         ELSE IF decision = "same" THEN Bool(FALSE) ELSE pending
           /\ check' = IF decision = "seed"
                       THEN [check EXCEPT !.pc = "seeded", !.decision = decision]
                       ELSE Returned([check EXCEPT !.decision = decision],
                                     decision = "changed")
    /\ UNCHANGED <<remoteUrl, bundled, hosted, lastChecked, gistEtag, gistFile, load, pollTimer, scheduled,
                   settingDefinitions, etagStore, cacheFiles, cfg, outsideConfig>>

\* after the snapshot is stored: the flag is cleared and the check returns false
CheckSeeded ==
    /\ check.pc = "seeded"
    /\ pending' = Bool(FALSE)
    /\ check' = Returned(check, FALSE)
    /\ UNCHANGED <<remoteUrl, bundled, hosted, lastRaw, lastChecked, gistEtag, gistFile, load,
                   pollTimer, scheduled, settingDefinitions, etagStore, cacheFiles, cfg, outsideConfig>>

\* parseConfiguration of a document whose settings array holds one entry
ParseEntry(entry) ==
    /\ parseInput' = entry
    /\ parseOutput' = parseConfiguration(Text(TRUE, TRUE, TRUE, <<entry>>), cfg,
                                         installed).definitions
    /\ UNCHANGED <<trackerVars, httpVars, defaultsVars, remoteUrl, bundled, hosted, pending,
                   lastRaw, lastChecked, gistEtag, gistFile, load, load2, check, pollTimer,
                   scheduled, listening, settingDefinitions, webviewState, provider>>

ParseNext == \E group \in GroupInputs : ParseEntry(group)

EnrichNext == \E entry \in SingleInputs : ParseEntry(entry)

\* StateManager.buildWebviewState(definitions), as postState calls it
BuildWebviewState(definitions) ==
    /\ \E r \in {buildWebviewState(definitions, cfg, installed, trk, pending, lastChecked)} :
        /\ webviewState' = r.state
        /\ cfg' = r.cfg
        /\ trk' = r.trk
        /\ stored' = IF r.trk = trk THEN stored ELSE DocOf(r.trk)
        /\ pending' = r.pending
        /\ lastChecked' = r.lastChecked
    /\ UNCHANGED <<loadedFrom, initialized, lastOp, prevOp, httpVars, installed, lastApply,
                   remoteUrl, bundled, hosted, lastRaw, gistEtag, gistFile, load, load2, check,
                   pollTimer, scheduled, listening, settingDefinitions, parseInput,
                   parseOutput, provider>>

StateNext == \E definitions \in StateInputs : BuildWebviewState(definitions)

(***************************************************************************)
(* OnByDefaultSettingsWebviewProvider                                      *)
(***************************************************************************)
\* updateWebviewState(): nothing without a view, else the snapshot of the
\* loaded list replaces the one rendered
updateWebviewState(view, definitions, c, inst, st, pend, checked, state) ==
    IF ~view THEN state
    ELSE buildWebviewState(definitions, c, inst, st, pend, checked).state

\* the key column of a loaded list, as the tracker reads it
KeyColumn(definitions) == [i \in 1..Len(definitions) |-> definitions[i].key]

\* the test of the onDidChangeConfiguration listener of the first body of
\* startExternalWatchers: some loaded definition has the key
affectsLoaded(definitions, settingKeys, key) ==
    \E i \in 1..Len(definitions) : definitions[i].key = key

\* the test of the listener watchConfiguration(settingKeys) sets up: some key
\* kept when startExternalWatchers ran is the key
affectsWatched(definitions, settingKeys, key) == key \in settingKeys

\* resolveWebviewView(view) up to the fetch of its loadConfiguration: the
\* view is kept, initializeConfiguration calls loadConfiguration
ResolveWebviewView ==
    /\ provider.pc = "active"
    /\ load.pc \in {"idle", "done"}
    /\ provider' = [provider EXCEPT !.view = TRUE, !.pc = "loading"]
    /\ load' = LoadCall("load", 1, "fetching",
                        fetchIfNoneMatch(remoteUrl, TRUE, etagStore, gistEtag),
                        NoResponse, 0, NoOutcome, {})
    /\ UNCHANGED <<trackerVars, httpVars, defaultsVars, remoteUrl, bundled, hosted, pending,
                   lastRaw, lastChecked, gistEtag, gistFile, load2, check, pollTimer, scheduled,
                   listening, settingDefinitions, parseInput, parseOutput, webviewState>>

\* handleRemoteConfigUrlChange(), as the watcher of the bundled file and the
\* change of the URL setting call it, up to the fetch of its loadConfiguration
HandleRemoteConfigUrlChange ==
    /\ provider.pc = "ready"
    /\ load.pc \in {"idle", "done"}
    /\ load' = LoadCall("load", 1, "fetching",
                        fetchIfNoneMatch(remoteUrl, TRUE, etagStore, gistEtag),
                        NoResponse, 0, NoOutcome, {})
    /\ UNCHANGED <<trackerVars, httpVars, defaultsVars, remoteUrl, bundled, hosted, pending,
                   lastRaw, lastChecked, gistEtag, gistFile, load2, check, pollTimer, scheduled,
                   listening, settingDefinitions, parseInput, parseOutput, webviewState,
                   provider>>

\* the fetch of the provider's loadConfiguration is answered: the rest of
\* loadConfiguration runs, and the listener of onConfigurationChanged keeps
\* the list fired and calls updateWebviewState, as handleRemoteConfigUrlChange
\* does when its load returns
LoadAnswered ==
    /\ provider.pc \in {"loading", "ready"}
    /\ load.pc = "fetching"
    /\ \E r \in loadConfigurationOutcomes(load) :
        /\ etagStore' = r.fetched.etags
        /\ cacheFiles' = r.fetched.files
        /\ gistEtag' = r.fetched.getag
        /\ gistFile' = r.fetched.gfile
        /\ cfg' = r.cfg
        /\ settingDefinitions' = r.definitions
        /\ load' = r.call
        /\ webviewState' =
                IF (listening /\ r.call.out.fired # <<>>) \/ provider.pc = "ready"
                THEN updateWebviewState(provider.view, r.definitions, r.cfg, installed, trk,
                                        pending, lastChecked, webviewState)
                ELSE webviewState
    /\ provider' = [provider EXCEPT !.pc = IF @ = "loading" THEN "loaded" ELSE @]
    /\ UNCHANGED <<trackerVars, srvBody, cachedFor, prevGet, lastGet, installed, lastApply,
                   remoteUrl, bundled, hosted, pending, lastRaw, lastChecked, load2, check,
                   pollTimer, scheduled, listening, parseInput, parseOutput>>

\* initializeConfiguration resumes with the result of its load: the list is
\* kept and the tracker initialized with it; then resolveWebviewView starts
\* polling, whose first check begins, and calls updateWebviewState
InitializeConfiguration ==
    /\ provider.pc = "loaded"
    /\ check.pc \in {"idle", "done"}
    /\ LET definitions == load.out.result.definitions
           st == initializedState(trk, KeyColumn(definitions))
           poll == startPolling(pollTimer, scheduled)
       IN  /\ settingDefinitions' = definitions
           /\ trk' = st
           /\ stored' = DocOf(st)
           /\ initialized' = TRUE
           /\ lastOp' = Op("initialize", KeyColumn(definitions), {}, <<>>, trk.firstRun,
                          ~initialized)
           /\ prevOp' = NoOp
           /\ pollTimer' = poll.pollTimer
           /\ scheduled' = poll.scheduled
           /\ check' = IF ~poll.started THEN check
                       ELSE IF remoteUrl = NoUrl
                       THEN CheckCall("timer", "done", NoEtag, 0, "none", FALSE)
                       ELSE CheckCall("timer", "fetching",
                                      fetchIfNoneMatch(remoteUrl, FALSE, etagStore, gistEtag),
                                      0, "none", FALSE)
           /\ pending' = IF poll.started /\ remoteUrl = NoUrl THEN Bool(FALSE) ELSE pending
           /\ webviewState' = updateWebviewState(provider.view, definitions, cfg, installed, st,
                                                 pending', lastChecked, webviewState)
    /\ provider' = [provider EXCEPT !.pc = "ready"]
    /\ UNCHANGED <<loadedFrom, httpVars, defaultsVars, remoteUrl, bundled, hosted, lastRaw,
                   lastChecked, gistEtag, gistFile, load, load2, listening, parseInput,
                   parseOutput>>

\* the value of a key changes in the host configuration: the listener of
\* onDidChangeConfiguration calls updateWebviewState when its test finds the
\* change to affect a setting of the list
ChangeConfiguration(key, value) ==
    /\ cfg[key].globalValue # value
    /\ cfg' = [cfg EXCEPT ![key].globalValue = value]
    /\ webviewState' =
            IF (IF provider.version = 1
                THEN affectsLoaded(settingDefinitions, provider.settingKeys, key)
                ELSE affectsWatched(settingDefinitions, provider.settingKeys, key))
            THEN updateWebviewState(provider.view, settingDefinitions, cfg', installed, trk,
                                    pending, lastChecked, webviewState)
            ELSE webviewState
    /\ UNCHANGED <<trackerVars, httpVars, installed, lastApply, remoteUrl, bundled, hosted,
                   pending, lastRaw, lastChecked, gistEtag, gistFile, load, load2, check,
                   pollTimer, scheduled, listening, settingDefinitions, parseInput, parseOutput,
                   provider>>

ProviderNext ==
    \/ ResolveWebviewView
    \/ LoadAnswered
    \/ InitializeConfiguration
    \/ HandleRemoteConfigUrlChange
    \/ \E key \in Keys : ChangeConfiguration(key, Bool(FALSE))
    \/ CheckFetched
    \/ CheckCompare
    \/ CheckSeeded

\* the poller, checks on demand, and the teardown of the provider and of the service
PollingNext ==
    \/ StartPolling
    \/ PollTick
    \/ StopPolling
    \/ DisposeProvider
    \/ DisposeService
    \/ CheckNow
    \/ CheckFetched
    \/ CheckCompare
    \/ CheckSeeded

\* loadConfiguration() is called while no second call was ever started
CallFirst ==
    /\ load2.pc = "idle"
    /\ Call("load")

\* two loadConfiguration calls, the second started while the first is in flight
OverlapNext ==
    \/ CallFirst
    \/ FinishLoad
    \/ CallOverlapping
    \/ FinishOverlapping

\* loadConfiguration calls alone
LoadNext ==
    \/ Call("load")
    \/ FinishLoad

ConfigNext ==
    \/ \E op \in {"load", "refresh"} : Call(op)
    \/ Continue
    \/ FinishLoad
    \/ CheckNow
    \/ StartPolling
    \/ PollTick
    \/ StopPolling
    \/ CheckFetched
    \/ CheckCompare
    \/ CheckSeeded

(***************************************************************************)
(* Specifications                                                          *)
(***************************************************************************)
\* the seen-settings tracker over every persisted document, nothing else running
InitTracker == TrackerInit /\ HttpIdle /\ DefaultsIdle /\ ConfigIdle

SpecTracker == InitTracker /\ [][TrackerNext]_vars

\* the HTTP cache over every server content, nothing else running
InitHttp == HttpInit /\ TrackerIdle /\ DefaultsIdle /\ ConfigIdle

SpecHttp == InitHttp /\ [][HttpNext]_vars

\* defaults applied over every configuration, nothing else running
InitDefaults == DefaultsInit /\ TrackerIdle /\ HttpIdle /\ ConfigIdle

SpecDefaults == InitDefaults /\ [][DefaultsNext]_vars

\* loadConfiguration calls over every URL kind, bundled file, pair of remote
\* texts and both sets of extensions, from a fresh install
InitLoad ==
    /\ ConfigInit /\ TrackerIdle /\ HttpIdle
    /\ remoteUrl \in RemoteUrls
    /\ bundled \in BundledContents
    /\ hosted \in HostedTexts
    /\ cfg = [k \in Keys |-> Unset]
    /\ installed \in {{}, Extensions}
    /\ lastApply = NoApply

SpecLoad == InitLoad /\ [][LoadNext]_vars

\* loads, refreshes and checks running together over every URL kind, the
\* remote document edited between two texts, from a fresh install with no
\* extension installed
InitConfig ==
    /\ ConfigInit /\ TrackerIdle /\ HttpIdle
    /\ remoteUrl \in RemoteUrls
    /\ bundled = 5
    /\ hosted \in {{4, 5}, {0, 4}}
    /\ cfg = [k \in Keys |-> Unset]
    /\ installed = {}
    /\ lastApply = NoApply

SpecConfig == InitConfig /\ [][ConfigNext]_vars

\* a load started while another is in flight, over every URL kind and pair of
\* remote texts, from a fresh install
InitOverlap ==
    /\ ConfigInit /\ TrackerIdle /\ HttpIdle
    /\ remoteUrl \in RemoteUrls
    /\ bundled = 5
    /\ hosted \in HostedTexts
    /\ cfg = [k \in Keys |-> Unset]
    /\ installed \in {{}, Extensions}
    /\ lastApply = NoApply

SpecOverlap == InitOverlap /\ [][OverlapNext]_vars

\* the poller started, stopped and torn down, with checks on demand, over
\* every URL kind, from a fresh install
InitPolling ==
    /\ ConfigInit /\ TrackerIdle /\ HttpIdle
    /\ remoteUrl \in RemoteUrls
    /\ bundled = 5
    /\ hosted \in {{4, 5}, {0, 4}}
    /\ cfg = [k \in Keys |-> Unset]
    /\ installed = {}
    /\ lastApply = NoApply

SpecPolling == InitPolling /\ [][PollingNext]_vars

\* group containers parsed with and without the contributing extension installed
InitParse ==
    /\ ConfigIdle /\ TrackerIdle /\ HttpIdle
    /\ cfg = [k \in Keys |-> Unset]
    /\ installed \in {{}, Extensions}
    /\ lastApply = NoApply

SpecParse == InitParse /\ [][ParseNext]_vars

\* flat entries enriched over every state of the scopes and every set of
\* installed extensions
InitEnrich ==
    /\ ConfigIdle /\ TrackerIdle /\ HttpIdle
    /\ cfg \in {[k \in Keys |-> layers] : layers \in LiveLayers}
    /\ installed \in {{}, {"ext.one"}, Extensions}
    /\ lastApply = NoApply

SpecEnrich == InitEnrich /\ [][EnrichNext]_vars

\* snapshots built over every user value of the keys, with and without a
\* workspace-folder value above it, and every set of seen keys: in a fresh
\* install without the contributing extensions, and later with them
\* installed and a change flagged by a check
InitState ==
    /\ stored \in {DocOf([seenSettings |-> s, lastConfigHash |-> NoHash, firstRun |-> FALSE]) :
                        s \in SUBSET Keys}
    /\ trk = loadState(stored)
    /\ loadedFrom = DocClass(stored)
    /\ initialized = FALSE
    /\ lastOp = NoOp
    /\ prevOp = NoOp
    /\ HttpIdle
    /\ cfg \in {[k \in Keys |-> [globalValue |-> v, workspaceValue |-> Undefined,
                                  workspaceFolderValue |-> w]] :
                    v \in LiveValues, w \in {Undefined, Bool(FALSE)}}
    /\ lastApply = NoApply
    /\ remoteUrl = NoUrl
    /\ bundled = 0
    /\ hosted = {0}
    /\ \E later \in BOOLEAN :
        /\ installed = (IF later THEN Extensions ELSE {})
        /\ pending = (IF later THEN Bool(TRUE) ELSE Undefined)
        /\ lastChecked = (IF later THEN 1 ELSE NeverChecked)
    /\ lastRaw = NoSnapshot
    /\ gistEtag = NoEtag
    /\ gistFile = NoFile
    /\ load = NoLoad
    /\ load2 = NoLoad
    /\ check = NoCheck
    /\ pollTimer = FALSE
    /\ scheduled = 0
    /\ listening = TRUE
    /\ settingDefinitions = <<>>
    /\ parseInput = NoGroup
    /\ parseOutput = <<>>
    /\ webviewState = NoState
    /\ provider = NoProvider

SpecState == InitState /\ [][StateNext]_vars

\* a session of the provider from activation on, in a fresh install and in
\* a later session that has seen key 1, with either body of
\* startExternalWatchers, with and without a remote document, which may be
\* one that fails to parse as a whole
InitProvider ==
    /\ stored \in {AbsentDoc,
                   DocOf([seenSettings |-> {1}, lastConfigHash |-> NoHash, firstRun |-> FALSE])}
    /\ trk = loadState(stored)
    /\ loadedFrom = DocClass(stored)
    /\ initialized = FALSE
    /\ lastOp = NoOp
    /\ prevOp = NoOp
    /\ HttpIdle
    /\ cfg = [k \in Keys |-> Unset]
    /\ installed = {}
    /\ lastApply = NoApply
    /\ remoteUrl \in {NoUrl, ObservedUrl}
    /\ bundled \in {0, 5}
    /\ hosted \in {{4}, {4, 6}}
    /\ pending = Undefined
    /\ lastRaw = NoSnapshot
    /\ lastChecked = NeverChecked
    /\ gistEtag = NoEtag
    /\ gistFile = NoFile
    /\ load = NoLoad
    /\ load2 = NoLoad
    /\ check = NoCheck
    /\ pollTimer = FALSE
    /\ scheduled = 0
    /\ listening = TRUE
    /\ settingDefinitions = <<>>
    /\ parseInput = NoGroup
    /\ parseOutput = <<>>
    /\ webviewState = NoState
    /\ provider \in {Provider(version, FALSE, "active", {}) : version \in {1, 2}}

SpecProvider == InitProvider /\ [][ProviderNext]_vars

(***************************************************************************)
(* C1: when the tracker was constructed with no persisted seen-state, then *)
(* right after its first initialize(defs) no key of defs is new and        *)
(* getNewSettingsCount(defs) is 0.                                         *)
(***************************************************************************)
FirstRunInitializeMarksAllSeen ==
    (lastOp.op = "initialize" /\ lastOp.first /\ loadedFrom = "absent") =>
        /\ \A k \in KeysOf(lastOp.defs) : ~isSettingNew(trk, k)
        /\ getNewSettingsCount(trk, lastOp.defs) = 0

FirstRunInitializeWitness ==
    /\ lastOp.op = "initialize" /\ lastOp.first /\ loadedFrom = "absent"
    /\ Len(lastOp.defs) = MaxDefs
    /\ Cardinality(KeysOf(lastOp.defs)) > 1


\* a step in which a loadConfiguration returns
LoadReturns == load.pc = "fetching" /\ load'.pc # "fetching"

(***************************************************************************)
(* C2: when a loadConfiguration returns, if no remote URL is configured or *)
(* the remote retrieval yielded no content, the definitions returned are   *)
(* those parsed from the bundled document and source is local; and source  *)
(* is remote only if a URL is configured and the retrieval yielded a text  *)
(* that parses as JSON.                                                    *)
(***************************************************************************)
LoadFallsBackToBundled ==
    [][LoadReturns =>
        /\ (remoteUrl = NoUrl \/ load'.content = 0) =>
                /\ load'.out.result.source = "local"
                /\ load'.out.result.definitions =
                        parseConfiguration(jsonOrNull(bundled), cfg, installed).definitions
        /\ load'.out.result.source = "remote" =>
                /\ remoteUrl # NoUrl
                /\ load'.content # 0
                /\ TextOf(load'.content).parses]_vars

\* a load with a URL whose retrieval yielded nothing returned the two
\* definitions of the bundled document
LoadFallsBackWitness ==
    /\ load.pc = "done"
    /\ remoteUrl # NoUrl
    /\ load.content = 0
    /\ load.out.result.source = "local"
    /\ Len(load.out.result.definitions) = 2

(***************************************************************************)
(* C3: a loadConfiguration that has returned fired exactly one change      *)
(* notification, whose payload is the result it returned and is what the   *)
(* listener holds; when the load failed as a whole, that result has no     *)
(* definitions and source local.                                           *)
(***************************************************************************)
LoadFiresItsResultOnce ==
    load.pc = "done" =>
        /\ Len(load.out.fired) = 1
        /\ load.out.fired[1] = load.out.result
        /\ settingDefinitions = load.out.result.definitions
        /\ load.out.threw => load.out.result = ConfigurationLoadResult(<<>>, "local")

\* a load whose remote document parsed and whose enrichment threw
LoadFailedWitness ==
    /\ load.pc = "done"
    /\ load.out.threw
    /\ load.content # 0
    /\ Len(load.out.fired) = 1
    /\ settingDefinitions = <<>>

(***************************************************************************)
(* C4: an iteration of applyDefaultsToUserSettings changes the settings    *)
(* only for a definition whose requires are all installed and whose key    *)
(* had no explicit value at the global, workspace and workspace-folder     *)
(* scopes; it writes the global value of that key and leaves every other   *)
(* key, and the key's other scopes, as they were.                          *)
(***************************************************************************)
DefaultsWrittenOnlyWhenUnset ==
    [][cfg' # cfg =>
        /\ \A i \in 1..Len(lastApply'.requires) : lastApply'.requires[i] \in installed
        /\ cfg[lastApply'.key] = Unset
        /\ cfg'[lastApply'.key].globalValue # Undefined
        /\ cfg'[lastApply'.key].workspaceValue = Undefined
        /\ cfg'[lastApply'.key].workspaceFolderValue = Undefined
        /\ \A k \in Keys \ {lastApply'.key} : cfg'[k] = cfg[k]]_vars

\* a default was written for a definition requiring two installed extensions,
\* next to a key the user has set for the workspace folder
DefaultsWrittenWitness ==
    /\ lastApply # NoApply
    /\ Len(lastApply.requires) = 2
    /\ cfg[lastApply.key].globalValue = Bool(TRUE)
    /\ \E k \in Keys \ {lastApply.key} :
          /\ cfg[k].workspaceFolderValue = Bool(FALSE)
          /\ cfg[k].globalValue = Undefined


\* a step in which the check compares the text it obtained with the snapshot
CheckCompares == check.pc = "compare" /\ check'.pc # "compare"

(***************************************************************************)
(* C5: a check that obtained text while no snapshot is stored stores that  *)
(* text as the snapshot; when it then returns, it returns false and the    *)
(* pending flag is false.                                                  *)
(***************************************************************************)
FirstCheckSeedsSnapshot ==
    [][/\ (CheckCompares /\ lastRaw \in {NoSnapshot, NullSnapshot}) =>
            /\ lastRaw' = check.text
            /\ check'.decision = "seed"
       /\ (check.decision = "seed" /\ check.pc # "done" /\ check'.pc = "done") =>
            /\ check'.ret = FALSE
            /\ pending' = Bool(FALSE)]_vars

\* a check has seeded the snapshot and returned false
FirstCheckSeedsWitness ==
    /\ check.pc = "done"
    /\ check.decision = "seed"
    /\ ~check.ret
    /\ lastRaw \in DocBodies
    /\ pending = Bool(FALSE)

(***************************************************************************)
(* C6: a check that obtained text while a snapshot is stored sets the      *)
(* pending flag to true and returns true when the text differs from the    *)
(* snapshot, sets it to false and returns false when the text equals it,   *)
(* and leaves the snapshot as it was.                                      *)
(***************************************************************************)
LaterCheckFlagsDifference ==
    [][(CheckCompares /\ lastRaw \notin {NoSnapshot, NullSnapshot}) =>
        /\ lastRaw' = lastRaw
        /\ check'.pc = "done"
        /\ IF check.text # lastRaw
           THEN pending' = Bool(TRUE) /\ check'.ret = TRUE
           ELSE pending' = Bool(FALSE) /\ check'.ret = FALSE]_vars

\* a check found the text changed and returned true
LaterCheckWitness ==
    /\ check.pc = "done"
    /\ check.decision = "changed"
    /\ check.ret
    /\ pending = Bool(TRUE)
    /\ lastRaw \in DocBodies

\* a step of a checkForRemoteUpdates call
CheckStep == check' # check

(***************************************************************************)
(* C7 as stated: no step of a check changes the loaded definition list,    *)
(* fires the change notification, or writes a persisted value other than   *)
(* the pending flag, the last-checked time and the snapshot.               *)
(***************************************************************************)
CheckWritesOnlyItsThreeKeys ==
    [][CheckStep =>
        /\ settingDefinitions' = settingDefinitions
        /\ load' = load
        /\ cfg' = cfg
        /\ etagStore' = etagStore
        /\ cacheFiles' = cacheFiles
        /\ gistEtag' = gistEtag
        /\ gistFile' = gistFile]_vars

(***************************************************************************)
(* C7 as amended: no step of a check changes the loaded definition list,   *)
(* fires the change notification, or writes a persisted value other than   *)
(* the pending flag, the last-checked time, the snapshot and, when the     *)
(* URL is a gist, the gist's ETag and the gist's cache file.               *)
(***************************************************************************)
CheckWritesOnlyItsKeysAndGistCache ==
    [][CheckStep =>
        /\ settingDefinitions' = settingDefinitions
        /\ load' = load
        /\ cfg' = cfg
        /\ etagStore' = etagStore
        /\ cacheFiles' = cacheFiles
        /\ (gistEtag' # gistEtag \/ gistFile' # gistFile) => remoteUrl = GistUrl]_vars

\* a check started by the timer has returned, having written the gist's
\* ETag and cache file where no load ever ran
CheckWritesWitness ==
    /\ check.pc = "done"
    /\ check.by = "timer"
    /\ load.pc = "idle"
    /\ gistEtag # NoEtag
    /\ gistFile # NoFile
    /\ lastChecked # NeverChecked
    /\ settingDefinitions = <<>>

\* the steps of a refreshConfiguration call
RefreshLoadBegins == load'.op = "refresh" /\ load'.pc = "fetching" /\ load.pc # "fetching"

RefreshLoadReturns == load.op = "refresh" /\ LoadReturns

RefreshClearsPending == load.op = "refresh" /\ load.pc = "run" /\ load.at = 2 /\ load' # load

RefreshClearsSnapshot == load.op = "refresh" /\ load.pc = "run" /\ load.at = 3 /\ load' # load

(***************************************************************************)
(* C8 as stated: at the moment the load of a refreshConfiguration begins,  *)
(* the pending flag is false and no snapshot is stored.                    *)
(***************************************************************************)
RefreshClearsBeforeLoad ==
    [][RefreshLoadBegins =>
        /\ pending' # Bool(TRUE)
        /\ lastRaw' \in {NoSnapshot, NullSnapshot}]_vars

(***************************************************************************)
(* C8 as amended: refreshConfiguration first runs the full load, leaving   *)
(* the pending flag and the snapshot as they are when the load begins and  *)
(* when it returns; only after the load has returned and fired does it set *)
(* the pending flag to false, and after that it clears the snapshot and    *)
(* returns.                                                                *)
(***************************************************************************)
RefreshLoadsBeforeClearing ==
    [][/\ (RefreshLoadBegins \/ RefreshLoadReturns) =>
            /\ pending' = pending
            /\ lastRaw' = lastRaw
       /\ RefreshLoadBegins => load'.at = 1
       /\ RefreshClearsPending =>
            /\ Len(load.out.fired) = 1
            /\ pending' = Bool(FALSE)
            /\ lastRaw' = lastRaw
       /\ RefreshClearsSnapshot =>
            /\ pending' = pending
            /\ lastRaw' = NullSnapshot
            /\ load'.pc = "done"]_vars

\* a refresh called while an update was pending has returned
RefreshWitness ==
    /\ load.op = "refresh"
    /\ load.pc = "done"
    /\ Len(load.out.fired) = 1
    /\ lastChecked # NeverChecked
    /\ pending = Bool(FALSE)
    /\ lastRaw = NullSnapshot

(***************************************************************************)
(* C9: with caching enabled, a get answered 304 whose URL's previous       *)
(* caching get returned data, the server's body unchanged since, returns   *)
(* fromCache true and the same data.                                       *)
(***************************************************************************)
GetStep == lastGet'.n # lastGet.n

SecondFetchServedFromCache ==
    [][(GetStep /\ lastGet'.url = ObservedUrl /\ lastGet'.useCache /\ prevGet # NoFile
            /\ lastGet'.resp.kind = "http" /\ lastGet'.resp.status = 304) =>
        /\ lastGet'.kind = "returned"
        /\ lastGet'.fromCache
        /\ lastGet'.data = prevGet]_vars

(***************************************************************************)
(* C10: with caching enabled, a get whose request fails or is answered a   *)
(* non-2xx status other than 304 returns the content cached for that URL   *)
(* with fromCache true when there is one, and otherwise throws.            *)
(***************************************************************************)
FailedFetchFallsBackToUrlCache ==
    [][(GetStep /\ lastGet'.url = ObservedUrl /\ lastGet'.useCache
            /\ (lastGet'.resp.kind = "neterr"
                \/ (~Is2xx(lastGet'.resp) /\ lastGet'.resp.status # 304))) =>
        IF cachedFor # NoFile
        THEN /\ lastGet'.kind = "returned"
             /\ lastGet'.fromCache
             /\ lastGet'.data = cachedFor
        ELSE lastGet'.kind = "thrown"]_vars

(***************************************************************************)
(* C11: after a get with caching enabled that received a 2xx response, the *)
(* content cached for the URL is the response body and the ETag stored for *)
(* the URL is the ETag of that response.                                   *)
(***************************************************************************)
CachingGetRefreshesCacheAndEtag ==
    [][(GetStep /\ lastGet'.useCache /\ Is2xx(lastGet'.resp)) =>
        /\ cacheFiles'[getCacheFileName(lastGet'.url)] = lastGet'.resp.data
        /\ etagStore'[lastGet'.url] = lastGet'.resp.etag]_vars

SeenMapOnlyGrows ==
    [][/\ lastOp'.op = "markAsSeen" =>
            \A k \in lastOp'.keys : ~isSettingNew(trk', k)
       /\ lastOp'.op = "markAllAsSeen" =>
            \A k \in KeysOf(lastOp'.defs) : ~isSettingNew(trk', k)
       /\ lastOp'.op # "clearState" =>
            \A k \in Keys : ~isSettingNew(trk, k) => ~isSettingNew(trk', k)]_vars

\* in a session that started with nothing stored and never ran initialize, a
\* detectNewSettings of two keys found one of them marked seen earlier
SeenMapWitness ==
    /\ loadedFrom = "absent"
    /\ trk.firstRun
    /\ lastOp.op = "detectNewSettings"
    /\ Cardinality(KeysOf(lastOp.defs)) = 2
    /\ Len(lastOp.ret) = 1
    /\ \E k \in KeysOf(lastOp.defs) : ~isSettingNew(trk, k)

(***************************************************************************)
(* C14: a detectNewSettings(defs) called while the stored hash differs     *)
(* from the hash of defs returns the definitions of defs whose key is not  *)
(* in the seen map, in the order of defs, stores the new hash, and leaves  *)
(* the seen map as it was.                                                 *)
(***************************************************************************)
DetectReturnsUnseenInOrder ==
    [][(lastOp'.op = "detectNewSettings"
            /\ trk.lastConfigHash # calculateConfigHash(lastOp'.defs)) =>
        /\ lastOp'.ret = SelectSeq(lastOp'.defs, LAMBDA k : k \notin trk.seenSettings)
        /\ trk'.lastConfigHash = calculateConfigHash(lastOp'.defs)
        /\ stored'.lastConfigHash = calculateConfigHash(lastOp'.defs)
        /\ trk'.seenSettings = trk.seenSettings
        /\ stored'.seenSettings = trk.seenSettings]_vars

\* detectNewSettings was given the largest key before a smaller one, both
\* unseen, and returned them in that order
DetectReturnsWitness ==
    /\ lastOp.op = "detectNewSettings"
    /\ Len(lastOp.defs) = 2
    /\ lastOp.defs[1] = NumKeys
    /\ lastOp.defs[2] < NumKeys
    /\ lastOp.ret = lastOp.defs
    /\ stored.present
    /\ stored.lastConfigHash = calculateConfigHash(lastOp.defs)

CorruptStateTreatedAsAbsent ==
    /\ (loadedFrom \in {"mismatch", "invalid"} /\ lastOp.op = "construct") =>
            trk = createDefaultState
    /\ (loadedFrom \in {"mismatch", "invalid"} /\ lastOp.op = "initialize" /\ lastOp.first) =>
            /\ lastOp.firstRunBefore
            /\ \A k \in KeysOf(lastOp.defs) : ~isSettingNew(trk, k)
            /\ getNewSettingsCount(trk, lastOp.defs) \in Nat

\* a step in which the second, overlapping loadConfiguration returns
OverlappingLoadReturns == load2.pc = "fetching" /\ load2'.pc # "fetching"

RefreshEndsAsSerial ==
    [][(RefreshClearsSnapshot /\ check.pc \in {"idle", "done"}) =>
        /\ pending' = Bool(FALSE)
        /\ lastRaw' = NullSnapshot]_vars

MembersOf(list) == {list[i] : i \in 1..Len(list)}

(***************************************************************************)
(* C21, as the code has it: of a group container with requires G, a member *)
(* is enriched with the members of G in their order followed by those of   *)
(* its own requires M that G lacks, each once; a member that supplies none *)
(* inherits G; and when neither supplies any, the member has the requires  *)
(* its schema gives it (the extension that contributes the key).           *)
(***************************************************************************)
MemberRequiresMergedWithGroup ==
    parseInput # NoGroup =>
        /\ Len(parseOutput) = Len(parseInput.settings)
        /\ \A i \in 1..Len(parseOutput) :
            LET G == parseInput.requires
                M == parseInput.settings[i].requires
                R == parseOutput[i].requires
                owner == findSchemaForKey(parseOutput[i].key, installed).extensionId
            IN  IF G = <<>> /\ M = <<>>
                THEN R = (IF owner # "" THEN <<owner>> ELSE <<>>)
                ELSE /\ MembersOf(R) = MembersOf(G) \cup MembersOf(M)
                     /\ Len(R) = Cardinality(MembersOf(R))
                     /\ SubSeq(R, 1, Len(G)) = G
                     /\ M = <<>> => R = G

\* a group requiring ext.one whose first member requires ext.two and whose
\* second requires nothing: the first has both, the second the group's
MemberRequiresWitness ==
    /\ parseInput # NoGroup
    /\ parseInput.requires = <<"ext.one">>
    /\ parseInput.settings[1].requires = <<"ext.two">>
    /\ parseInput.settings[2].requires = <<>>
    /\ parseOutput[1].requires = <<"ext.one", "ext.two">>
    /\ parseOutput[2].requires = <<"ext.one">>

(***************************************************************************)
(* C21, as stated: a member that supplies its own requires M is enriched   *)
(* with requires exactly M, and a member that supplies none inherits G.    *)
(***************************************************************************)
MemberRequiresWinOverGroup ==
    parseInput # NoGroup =>
        \A i \in 1..Len(parseOutput) :
            (parseInput.requires # <<>> \/ parseInput.settings[i].requires # <<>>) =>
                parseOutput[i].requires =
                    IF parseInput.settings[i].requires # <<>>
                    THEN parseInput.settings[i].requires
                    ELSE parseInput.requires

(***************************************************************************)
(* C22: for every raw entry, every schema and every state of the live      *)
(* values, the type of the enriched definition is one of boolean, number,  *)
(* string and json, and every value of its options is a string.            *)
(***************************************************************************)
EnrichedTypeAndOptionsValid ==
    \A i \in 1..Len(parseOutput) :
        /\ parseOutput[i].type \in {"boolean", "number", "string", "json"}
        /\ \A j \in 1..Len(parseOutput[i].options) : parseOutput[i].options[j].t = "string"

(***************************************************************************)
(* C23: the type of an enriched definition is the raw entry's own type if  *)
(* it has one; otherwise the runtime type of the live sample value, if one *)
(* exists at any layer (user, workspace, folder, then the default layer;   *)
(* a layer holding null or nothing is passed over, and a number is number, *)
(* a boolean is boolean, an object is json, anything else is string);      *)
(* otherwise the type inferred from the owning schema; otherwise string.   *)
(***************************************************************************)
EnrichedTypePrecedence ==
    parseInput # NoGroup =>
        /\ Len(parseOutput) = 1
        /\ LET key    == parseInput.key
               layers == <<cfg[key].globalValue, cfg[key].workspaceValue,
                           cfg[key].workspaceFolderValue>>
               held   == {i \in 1..3 : layers[i].t \notin {"undefined", "null"}}
               schema == findSchemaForKey(key, installed)
               live   == IF held # {} THEN layers[CHOOSE i \in held : \A j \in held : i <= j]
                         ELSE schema.default
           IN  parseOutput[1].type =
                    IF parseInput.type # "" THEN parseInput.type
                    ELSE IF live # Undefined
                         THEN (CASE live.t = "boolean" -> "boolean"
                                 [] live.t = "number" -> "number"
                                 [] live.t = "object" -> "json"
                                 [] OTHER -> "string")
                    ELSE IF schema.found THEN inferFromSchema(schema, Undefined).type
                    ELSE "string"

\* an entry of type string for a key whose schema says boolean and whose
\* user value is a number is a string
ExplicitTypeWitness ==
    /\ parseInput # NoGroup
    /\ parseInput.key = 1 /\ parseInput.type = "string"
    /\ "ext.one" \in installed
    /\ cfg[1].globalValue = Num(4)
    /\ parseOutput[1].type = "string"

\* an iteration of applyDefaultsToUserSettings over a definition that
\* qualifies for a default (its requires are installed and its key has no
\* explicit value at any scope), the settings accepting the write
QualifyingApply ==
    /\ lastApply' # NoApply
    /\ lastApply'.updateOk
    /\ \A i \in 1..Len(lastApply'.requires) : lastApply'.requires[i] \in installed
    /\ cfg[lastApply'.key] = Unset

(***************************************************************************)
(* C24, as the code has it: for a definition that qualifies for a default, *)
(* the value written is its explicit default if defined, else true if its  *)
(* type is boolean, else its min (1 if min is undefined) if its type is    *)
(* number, else the value of its first option if its type is string and it *)
(* has options; a definition with none of these is not written.            *)
(***************************************************************************)
DefaultValueRule ==
    [][QualifyingApply =>
        LET d == lastApply'.def
            written == cfg'[d.key].globalValue
        IN  /\ d.default # Undefined => written = d.default
            /\ (d.default = Undefined /\ d.type = "boolean") => written = Bool(TRUE)
            /\ (d.default = Undefined /\ d.type = "number") =>
                    written = (IF d.min # Undefined THEN d.min ELSE Num(1))
            /\ (d.default = Undefined /\ d.type = "string" /\ d.options # <<>>) =>
                    written = d.options[1]
            /\ (d.default = Undefined /\ d.type \notin {"boolean", "number"}
                    /\ (d.type # "string" \/ d.options = <<>>)) => cfg' = cfg]_vars

\* the first option of a string definition was written
DefaultValueWitness ==
    /\ lastApply # NoApply
    /\ lastApply.def.type = "string"
    /\ lastApply.def.default = Undefined
    /\ Len(lastApply.def.options) = 2
    /\ cfg[lastApply.key].globalValue = lastApply.def.options[1]

(***************************************************************************)
(* C24, as stated: for a definition that qualifies for a default, the      *)
(* value written is its explicit default if defined, else true if its type *)
(* is boolean, else its min (1 if min is undefined) if its type is number, *)
(* else the value of its first option if it has options; a definition with *)
(* none of these is not written.                                           *)
(***************************************************************************)
DefaultValueRuleAnyType ==
    [][QualifyingApply =>
        LET d == lastApply'.def
            written == cfg'[d.key].globalValue
        IN  /\ d.default # Undefined => written = d.default
            /\ (d.default = Undefined /\ d.type = "boolean") => written = Bool(TRUE)
            /\ (d.default = Undefined /\ d.type = "number") =>
                    written = (IF d.min # Undefined THEN d.min ELSE Num(1))
            /\ (d.default = Undefined /\ d.type \notin {"boolean", "number"}
                    /\ d.options # <<>>) => written = d.options[1]
            /\ (d.default = Undefined /\ d.type \notin {"boolean", "number"}
                    /\ d.options = <<>>) => cfg' = cfg]_vars

(***************************************************************************)
(* C25: in a snapshot, for every definition of one of the four types and   *)
(* the live value of its key: hasRecommendation is true exactly when       *)
(* recommended is defined; matchesRecommendation is true exactly when a    *)
(* recommendation exists and the live value equals it under the type's     *)
(* rule (boolean by truthiness, number by numeric coercion, string by      *)
(* string coercion, json by serialized equality), where an undefined or    *)
(* null live value matches only a null recommendation.                     *)
(***************************************************************************)
RecommendationEvaluated ==
    webviewState # NoState =>
        \A i \in 1..Len(webviewState.definitions) :
            LET def == webviewState.definitions[i]
                live == configGet(def.key, cfg, installed)
                rec  == def.recommended
            IN  /\ def.hasRecommendation <=> rec # Undefined
                /\ ~def.hasRecommendation => ~def.matchesRecommendation
                /\ (def.hasRecommendation /\ live \in {Undefined, Null}) =>
                        (def.matchesRecommendation <=> rec = Null)
                /\ (def.hasRecommendation /\ live \notin {Undefined, Null}) =>
                        /\ def.type = "boolean" =>
                            (def.matchesRecommendation <=> (Truthy(live) <=> Truthy(rec)))
                        /\ def.type = "number" =>
                            (def.matchesRecommendation <=>
                                /\ ~ToNumber(live).nan /\ ~ToNumber(rec).nan
                                /\ ToNumber(live).n = ToNumber(rec).n)
                        /\ def.type = "string" =>
                            (def.matchesRecommendation <=> String(live) = String(rec))
                        /\ def.type = "json" =>
                            (def.matchesRecommendation <=> stringify(live) = stringify(rec))

\* the spec's example and a coercion: a boolean setting at false recommended
\* true has a recommendation and does not match
RecommendationWitness ==
    /\ webviewState # NoState
    /\ Len(webviewState.definitions) = 1
    /\ webviewState.definitions[1].type = "boolean"
    /\ webviewState.definitions[1].recommended = Bool(TRUE)
    /\ configGet(1, cfg, installed) = Bool(FALSE)
    /\ webviewState.definitions[1].hasRecommendation
    /\ ~webviewState.definitions[1].matchesRecommendation

(***************************************************************************)
(* C26: in every snapshot, recommendationSummary.total is the number of    *)
(* definitions with hasRecommendation true, matching is the number of      *)
(* those with matchesRecommendation true, and matching + differing is      *)
(* total.                                                                  *)
(***************************************************************************)
SummaryCountsRecommendations ==
    webviewState # NoState =>
        LET defs == webviewState.definitions
            summary == webviewState.recommendationSummary
        IN  /\ summary.total =
                    Cardinality({i \in 1..Len(defs) : defs[i].hasRecommendation})
            /\ summary.matching =
                    Cardinality({i \in 1..Len(defs) :
                                    defs[i].hasRecommendation /\ defs[i].matchesRecommendation})
            /\ summary.matching + summary.differing = summary.total

\* of two definitions one carries a recommendation, which the live value
\* does not match: total 1, matching 0, differing 1
SummaryWitness ==
    /\ webviewState # NoState
    /\ Len(webviewState.definitions) = 2
    /\ webviewState.definitions[1].hasRecommendation
    /\ ~webviewState.definitions[1].matchesRecommendation
    /\ ~webviewState.definitions[2].hasRecommendation
    /\ webviewState.recommendationSummary = [total |-> 1, matching |-> 0, differing |-> 1]

(***************************************************************************)
(* C27: buildWebviewState writes nothing: a build leaves the live          *)
(* configuration values, the persisted pending flag, last-checked          *)
(* timestamp and snapshot, and the seen-settings state (in memory and      *)
(* stored) as they were; and a build of the same definitions as the build  *)
(* before it, with that state unchanged, returns an equal snapshot.        *)
(***************************************************************************)
DefinitionsOf(state) ==
    [i \in 1..Len(state.definitions) |->
        StateDefinition(state.definitions[i].key, state.definitions[i].type,
                        state.definitions[i].group, state.definitions[i].recommended,
                        state.definitions[i].requires)]

FetchFailed(resp) ==
    \/ resp.kind = "neterr"
    \/ resp.kind = "http" /\ ~Is2xx(resp) /\ resp.status # 304

Malformed(text) == ~text.parses \/ ~text.hasSettings

(***************************************************************************)
(* C30: when the configured remote source answers a load with a malformed  *)
(* document (text that is not valid JSON, or JSON that has no settings     *)
(* array), the definitions the load returns are those of the bundled       *)
(* document.                                                               *)
(***************************************************************************)
MalformedRemoteDegradesToBundled ==
    [][(/\ LoadReturns
        /\ remoteUrl # NoUrl
        /\ Is2xx(load'.resp)
        /\ load'.content # 0
        /\ Malformed(TextOf(load'.content))) =>
            load'.out.result.definitions =
                parseConfiguration(jsonOrNull(bundled), cfg, installed).definitions]_vars

\* the document a load that returns parsed: the remote one when it is a JSON
\* value other than null, else the bundled one
DocumentOf(call) ==
    IF remoteUrl # NoUrl /\ jsonOrNull(call.content).truthy
    THEN jsonOrNull(call.content) ELSE jsonOrNull(bundled)

(***************************************************************************)
(* C31: a failure on one setting affects only that setting. When a load    *)
(* returns, every entry of the settings array whose enrichment does not    *)
(* fail is enriched and returned, whether or not the enrichment of another *)
(* entry failed; and every returned definition that qualified for its      *)
(* default has it written, unless its own write was rejected.              *)
(***************************************************************************)
FailureAffectsOnlyItsSetting ==
    [][LoadReturns =>
        LET json == DocumentOf(load')
            configs == IF json.truthy /\ json.hasSettings
                       THEN configsOf(json.settings) ELSE <<>>
            returned == load'.out.result.definitions
        IN  /\ \A i \in 1..Len(configs) :
                    ~overridesThrow(configs[i]) =>
                        \E j \in 1..Len(returned) :
                            returned[j] = enrichSettingDefinition(configs[i].key, configs[i],
                                                                  cfg, installed)
            /\ \A j \in 1..Len(returned) :
                    (/\ shouldApplyDefault(returned[j], cfg, installed)
                     /\ getDefaultValue(returned[j]) # Undefined
                     /\ returned[j].key \notin load'.rejected) =>
                        cfg'[returned[j].key].globalValue = getDefaultValue(returned[j])]_vars

\* the write of one definition's default was rejected and the other
\* definition of the list got its default
DefaultIsolatedWitness ==
    /\ load.pc = "done"
    /\ Len(load.out.result.definitions) = 2
    /\ load.rejected = {load.out.result.definitions[1].key}
    /\ cfg[load.out.result.definitions[1].key].globalValue = Undefined
    /\ cfg[load.out.result.definitions[2].key].globalValue # Undefined

\* the request of a checkForRemoteUpdates call is answered
CheckAnswered == check.pc = "fetching" /\ check'.pc # "fetching"

(***************************************************************************)
(* C32, as the code has it: a checkForRemoteUpdates call refreshes the      *)
(* persisted last-checked timestamp exactly when its fetch obtains text,    *)
(* before it compares, so whether it then seeds the snapshot, finds a       *)
(* difference or finds none; a call without a URL or whose fetch obtains    *)
(* no text leaves the timestamp as it was.                                  *)
(***************************************************************************)
CheckWithTextRefreshesLastChecked ==
    [][CheckStep =>
        (lastChecked' # lastChecked <=> (CheckAnswered /\ check'.pc = "compare"))]_vars

\* a check made after an earlier one recorded time 1 found the text
\* unchanged and left time 2
LaterCheckRefreshedWitness ==
    /\ check.pc = "done"
    /\ check.decision = "same"
    /\ lastChecked = 2

(***************************************************************************)
(* C32: every checkForRemoteUpdates call made after the first one (here:    *)
(* after one that recorded its time) refreshes the persisted last-checked   *)
(* timestamp, whatever the outcome of the check.                            *)
(***************************************************************************)
LaterCheckAlwaysRefreshesLastChecked ==
    [][(CheckAnswered /\ lastChecked # NeverChecked) => lastChecked' # lastChecked]_vars

(***************************************************************************)
(* C33: on a first run (no persisted seen-state) no snapshot of the loaded  *)
(* definitions is built for the view before the tracker's initialize has   *)
(* completed: a snapshot rendered before it holds no definition whose key  *)
(* is new to the tracker.                                                  *)
(***************************************************************************)
FirstRunRendersAfterInitialize ==
    (loadedFrom = "absent" /\ ~initialized /\ webviewState # NoState) =>
        \A i \in 1..Len(webviewState.definitions) :
            ~isSettingNew(trk, webviewState.definitions[i].key)

(***************************************************************************)
(* C34: in a later session (a stored state was found and firstRun was      *)
(* false when initialize ran), the first detectNewSettings(defs) after     *)
(* initialize(defs) returns the definition of every key of defs that was   *)
(* never marked seen.                                                      *)
(***************************************************************************)
UnseenKeyDetectedAfterInitialize ==
    [][(/\ lastOp.op = "initialize"
        /\ ~lastOp.firstRunBefore
        /\ loadedFrom = "valid"
        /\ lastOp'.op = "detectNewSettings"
        /\ lastOp'.defs = lastOp.defs) =>
            \A i \in 1..Len(lastOp.defs) :
                isSettingNew(trk, lastOp.defs[i]) =>
                    \E j \in 1..Len(lastOp'.ret) : lastOp'.ret[j] = lastOp.defs[i]]_vars

\* a step in which the host configuration changes the value of a key outside
\* any load
ConfigurationChanges == cfg' # cfg /\ load' = load

(***************************************************************************)
(* C35: whenever the live value of a key of the loaded definition list     *)
(* changes in the host configuration while the view is resolved, the       *)
(* snapshot rendered after the change is the one built from the list and   *)
(* the changed configuration, also for a list loaded after                 *)
(* startExternalWatchers was called.                                       *)
(***************************************************************************)
ValueChangeRerendersView ==
    [][(/\ ConfigurationChanges
        /\ provider.view
        /\ \E i \in 1..Len(settingDefinitions) :
                cfg'[settingDefinitions[i].key] # cfg[settingDefinitions[i].key]) =>
            webviewState' = buildWebviewState(settingDefinitions, cfg', installed, trk,
                                              pending, lastChecked).state]_vars

(***************************************************************************)
(* C36: when the first initialize of a user with no stored state was given *)
(* an empty definition list, a snapshot rendered from a non-empty list     *)
(* that a later load delivered does not have every key new to the tracker. *)
(***************************************************************************)
EmptyFirstLoadKeepsFirstRunProtection ==
    (/\ loadedFrom = "absent"
     /\ lastOp.op = "initialize"
     /\ lastOp.first
     /\ lastOp.firstRunBefore
     /\ lastOp.defs = <<>>
     /\ webviewState # NoState
     /\ Len(webviewState.definitions) > 0) =>
        \E i \in 1..Len(webviewState.definitions) :
            ~isSettingNew(trk, webviewState.definitions[i].key)

\* the ETag stored for a URL is the validator of the body in the URL's cache file
StoredEtagIsOfCachedBody(url) ==
    (etagStore[url] # NoEtag /\ cacheFiles[getCacheFileName(url)] # NoFile) =>
        etagStore[url] = EtagOf(cacheFiles[getCacheFileName(url)])

\* a step in which a get is answered 304 and returns the cached body
AnsweredFromCacheOn304 ==
    /\ lastGet'.n # lastGet.n
    /\ lastGet'.resp.status = 304
    /\ lastGet'.fromCache

(***************************************************************************)
(* C37: after any sequence of get calls the ETag stored for a URL is the   *)
(* one the server sent with the body now cached for it, and so a get       *)
(* answered 304 from the cache returns the body the server's ETag refers   *)
(* to, which is the body the server holds.                                 *)
(***************************************************************************)
StoredEtagBelongsToCachedBody ==
    /\ [](\A url \in URLs : StoredEtagIsOfCachedBody(url))
    /\ [][AnsweredFromCacheOn304 => lastGet'.data = srvBody[lastGet'.url]]_vars

\* the second half of C37 alone
NotModifiedReturnsServerBody ==
    [][AnsweredFromCacheOn304 => lastGet'.data = srvBody[lastGet'.url]]_vars

(***************************************************************************)
(* C38: the content a get returns with fromCache true for a URL is content *)
(* fetched from that URL before (the body of its last caching 2xx answer,  *)
(* the one the cache keeps), never content fetched from another URL.       *)
(***************************************************************************)
CacheEntriesAreIndependent ==
    [][(GetStep /\ lastGet'.url = ObservedUrl /\ lastGet'.fromCache) =>
        /\ cachedFor # NoFile
        /\ lastGet'.data = cachedFor]_vars

\* a step in which a caching get is answered by a reachable remote: a 2xx or
\* a 304
AnsweredByHealthyRemote ==
    /\ GetStep
    /\ lastGet'.useCache
    /\ lastGet'.resp.kind = "http"
    /\ (Is2xx(lastGet'.resp) \/ lastGet'.resp.status = 304)

(***************************************************************************)
(* C39: every get with caching enabled that a reachable remote answers     *)
(* with a 2xx or a 304 succeeds, also when an ETag is stored for the URL   *)
(* and its cache file is missing.                                          *)
(***************************************************************************)
HealthyRemoteGetSucceeds ==
    [][AnsweredByHealthyRemote => lastGet'.kind = "returned"]_vars

\* a step in which a checkForRemoteUpdates that obtained a text returns
CheckReturnsWithText == check.pc \in {"compare", "seeded"} /\ check'.pc = "done"

(***************************************************************************)
(* C40: when a check returns that obtained a remote text other than the    *)
(* text the loaded definitions were loaded from (by a load or refresh that *)
(* has returned with source remote), the pending flag is true after it.    *)
(***************************************************************************)
RemoteChangeIsFlagged ==
    [][(/\ CheckReturnsWithText
        /\ load.pc = "done"
        /\ load.out.result.source = "remote"
        /\ load.content # 0
        /\ check.text # load.content) => pending' = Bool(TRUE)]_vars

====
